---- MODULE Spec2Model ----
(***************************************************************************)
(* e6sync: the asset repository (storage/repo.py), its layout migration,   *)
(* the exiftool session channel of the sidecar manager                     *)
(* (storage/sidecar_manager.py) and the favourites listing of the API      *)
(* client (api/client.py), as state machines.                              *)
(*                                                                         *)
(* Text is modelled as a sequence of one-character strings, so that        *)
(* slicing, parsing and formatting are computed and not assumed.           *)
(***************************************************************************)
EXTENDS Integers, Sequences, FiniteSets, TLC

(***************************************************************************)
(* Bounds of the model.                                                    *)
(***************************************************************************)
\* number of asset ids an archive may hold
MaxAssets == 2
\* number of update_post calls one repository instance serves
MaxUpdates == 1
\* number of direct calls of _migration_0, or of _fetch_post, on a
\* constructed instance
MaxReruns == 1
\* number of chunks a download may consist of
MaxChunks == 2
\* number of threads calling one SidecarManager
NumCallers == 2
\* number of read_sidecar / update_sidecar calls the threads make in all
MaxOps == 2
\* the call ids randint draws are 1..MaxCallId (all of one width, as the
\* ids 1000..9999 of the program are)
MaxCallId == 2
\* number of times the processor passes from one working thread to another
MaxSwitches == 1
\* the posts a caller fetches by calling _fetch_post itself have ids
\* 1..MaxFetched
MaxFetched == 1
\* the posts of the site have ids 1..MaxPostId
MaxPostId == 3
\* number of posts the site returns per page at most (the limit the client
\* asks for, 320 in the program, scaled down)
PageLimit == 2

(***************************************************************************)
(* Program constants.                                                      *)
(***************************************************************************)
\* AssetRepository.latest_version
latest_version == 1

None == [none |-> TRUE]

Ok(v) == [ok |-> TRUE, val |-> v]

Raise(e) == [ok |-> FALSE, err |-> e]

(***************************************************************************)
(* Text helpers: str(int), str.rjust, digits.                              *)
(***************************************************************************)
DigitChars == <<"0", "1", "2", "3", "4", "5", "6", "7", "8", "9">>

IsDigit(c) == \E i \in 1..10 : DigitChars[i] = c

DigitVal(c) == (CHOOSE i \in 1..10 : DigitChars[i] = c) - 1

RECURSIVE Str(_)
\* str(n) for an int n >= 0
Str(n) == IF n < 10 THEN <<DigitChars[n + 1]>>
          ELSE Str(n \div 10) \o <<DigitChars[(n % 10) + 1]>>

RECURSIVE rjust(_, _, _)
\* str.rjust(width, fillchar)
rjust(s, width, fill) ==
    IF Len(s) >= width THEN s ELSE rjust(<<fill>> \o s, width, fill)

\* s[:n]
Slice(s, n) == SubSeq(s, 1, IF Len(s) < n THEN Len(s) ELSE n)

RECURSIVE NumVal(_)
\* int(s) for a sequence of digit characters
NumVal(s) == IF s = <<>> THEN 0
             ELSE 10 * NumVal(SubSeq(s, 1, Len(s) - 1)) + DigitVal(s[Len(s)])

AllDigits(s) == \A i \in 1..Len(s) : IsDigit(s[i])

(***************************************************************************)
(* _strptime: the directives the program uses.  A format is a sequence of  *)
(* directives ("%Y", "%m", ...) and literal characters.  The result is the *)
(* record of the parsed fields, or ValueError.                             *)
(***************************************************************************)
\* the longest run of digits of text starting at i, at most maxw long
DigitRun(text, i, maxw) ==
    LET ok(w) == i + w - 1 <= Len(text) /\ AllDigits(SubSeq(text, i, i + w - 1))
        ws == {w \in 0..maxw : ok(w)}
    IN  CHOOSE w \in ws : \A v \in ws : v <= w

\* [lo, hi] a directive's value lies in, and [minw, maxw] its width
Directive(d) ==
    CASE d = "%Y" -> [field |-> "year",   minw |-> 4, maxw |-> 4, lo |-> 1, hi |-> 9999]
      [] d = "%m" -> [field |-> "month",  minw |-> 1, maxw |-> 2, lo |-> 1, hi |-> 12]
      [] d = "%d" -> [field |-> "day",    minw |-> 1, maxw |-> 2, lo |-> 1, hi |-> 31]
      [] d = "%H" -> [field |-> "hour",   minw |-> 1, maxw |-> 2, lo |-> 0, hi |-> 23]
      [] d = "%M" -> [field |-> "minute", minw |-> 1, maxw |-> 2, lo |-> 0, hi |-> 59]
      [] d = "%S" -> [field |-> "second", minw |-> 1, maxw |-> 2, lo |-> 0, hi |-> 61]
      [] d = "%f" -> [field |-> "microsecond", minw |-> 1, maxw |-> 6, lo |-> 0, hi |-> 999999]

NumDirectives == {"%Y", "%m", "%d", "%H", "%M", "%S", "%f"}

RECURSIVE Pow10(_)
Pow10(k) == IF k = 0 THEN 1 ELSE 10 * Pow10(k - 1)

\* %z: [+-]HH[:]MM or Z; gives [w, off] (minutes east of UTC) or w = 0
ZoneAt(text, i) ==
    LET ch(k) == IF i + k <= Len(text) THEN text[i + k] ELSE ""
        dig(k) == IsDigit(ch(k))
        val(k) == 10 * DigitVal(ch(k)) + DigitVal(ch(k + 1))
        sign == IF ch(0) = "-" THEN -1 ELSE 1
    IN  IF ch(0) = "Z" THEN [w |-> 1, off |-> 0]
        ELSE IF ch(0) \notin {"+", "-"} \/ ~(dig(1) /\ dig(2)) THEN [w |-> 0, off |-> 0]
        ELSE IF ch(3) = ":" /\ dig(4) /\ dig(5) /\ val(4) <= 59
             THEN [w |-> 6, off |-> sign * (60 * val(1) + val(4))]
        ELSE IF dig(3) /\ dig(4) /\ val(3) <= 59
             THEN [w |-> 5, off |-> sign * (60 * val(1) + val(3))]
        ELSE [w |-> 0, off |-> 0]

EmptyFields ==
    [year |-> 1900, month |-> 1, day |-> 1, hour |-> 0, minute |-> 0,
     second |-> 0, microsecond |-> 0, tzinfo |-> None]

RECURSIVE ParseAt(_, _, _, _, _)
ParseAt(text, i, fmt, j, acc) ==
    IF j > Len(fmt)
    THEN IF i > Len(text) THEN Ok(acc) ELSE Raise("ValueError")
    ELSE IF fmt[j] \in NumDirectives
    THEN LET d == Directive(fmt[j])
             w == DigitRun(text, i, d.maxw)
             raw == NumVal(SubSeq(text, i, i + w - 1))
             v == IF fmt[j] = "%f" THEN raw * Pow10(6 - w) ELSE raw
         IN  IF w < d.minw \/ v < d.lo \/ v > d.hi THEN Raise("ValueError")
             ELSE ParseAt(text, i + w, fmt, j + 1, [acc EXCEPT ![d.field] = v])
    ELSE IF fmt[j] = "%z"
    THEN LET z == ZoneAt(text, i)
         IN  IF z.w = 0 THEN Raise("ValueError")
             ELSE ParseAt(text, i + z.w, fmt, j + 1,
                          [acc EXCEPT !.tzinfo = [offset |-> z.off]])
    ELSE IF i <= Len(text) /\ text[i] = fmt[j]
    THEN ParseAt(text, i + 1, fmt, j + 1, acc)
    ELSE Raise("ValueError")

\* time.strptime: a struct_time (attributes tm_year, tm_mon, tm_mday, ...)
time_strptime(text, fmt) ==
    LET r == ParseAt(text, 1, fmt, 1, EmptyFields)
    IN  IF ~r.ok THEN r
        ELSE Ok([tm_year |-> r.val.year, tm_mon |-> r.val.month,
                 tm_mday |-> r.val.day, tm_hour |-> r.val.hour,
                 tm_min |-> r.val.minute, tm_sec |-> r.val.second])

\* datetime.strptime: a datetime (attributes year, month, day, ...)
datetime_strptime(text, fmt) == ParseAt(text, 1, fmt, 1, EmptyFields)

FmtColonDate == <<"%Y", ":", "%m", ":", "%d">>

FmtDashDate == <<"%Y", "-", "%m", "-", "%d">>

(***************************************************************************)
(* storage/util.py                                                         *)
(***************************************************************************)
\* date2path reads date.year, date.month and date.day: an object without
\* those attributes (a time.struct_time has tm_year, tm_mon, tm_mday)
\* raises AttributeError
date2path(date) ==
    IF {"year", "month", "day"} \subseteq DOMAIN date
    THEN Ok(<<rjust(Str(date.year), 4, "0"),
              rjust(Str(date.month), 2, "0"),
              rjust(Str(date.day), 2, "0")>>)
    ELSE Raise("AttributeError")

(***************************************************************************)
(* The archive on disk.                                                    *)
(*   dirs    the directories, each the sequence of its components below    *)
(*           the storage root (the root itself is <<>>)                     *)
(*   fs      the regular files other than library.json: a function from    *)
(*           [dir, name] to the file's content, [doc, chunks, complete]:   *)
(*           what exiftool -j reports for it, and how much of a download   *)
(*           it holds                                                      *)
(*   marker  library.json: missing, empty (opened for writing and not yet  *)
(*           written) or holding a version                                 *)
(* A file name is the sequence of its dot-separated parts.                 *)
(***************************************************************************)
VARIABLES dirs, fs, marker

(***************************************************************************)
(* The process running AssetRepository.                                    *)
(*   pc        where the process is ("closed": no process)                 *)
(*   metadata  self.metadata["version"], or None before it is loaded       *)
(*   pending   the migrations perform_migrations still has to run          *)
(*   todo      the entries of root.iterdir() not yet visited               *)
(*   cur       the pair _migration_0 / the post update_post is working on  *)
(*   err       the exception that ended the last run or call ("" if none)  *)
(***************************************************************************)
VARIABLES pc, metadata, pending, todo, cur, err

(***************************************************************************)
(* History, for stating the properties.                                    *)
(*   startMarker  the marker when the running _migration_0 started         *)
(*   startFs      the files when the running _migration_0 started          *)
(*   moves        the renames the running _migration_0 has performed       *)
(*   served       the update_post calls this instance has executed         *)
(*   migrated     this instance ran perform_migrations to its end          *)
(*   reruns       direct calls of _migration_0 or of _fetch_post on the    *)
(*                constructed instance                                     *)
(*   last         how the latest _migration_0 run ended: NoRun, or         *)
(*                [outcome, at, err, fs, marker]: "done" or "aborted", the *)
(*                step and the exception that ended it, and the disk as it *)
(*                left it                                                  *)
(*   prevRun      the value of last when the running _migration_0 started  *)
(*   fs0          the files of the initial archive                         *)
(*   held         the versions library.json has held                       *)
(*   sidecar_writes  per post id, the times _write_sidecar has run         *)
(*                exiftool on that post's sidecar                          *)
(***************************************************************************)
VARIABLES startMarker, startFs, moves, served, migrated, reruns, last, prevRun,
          fs0, held, sidecar_writes

(***************************************************************************)
(* The SidecarManager, its exiftool process and the threads calling it.    *)
(*   xmp          the sidecar files: a function from a path to the tags    *)
(*                the file holds                                           *)
(*   stdin_buf    frames written to exiftool.stdin and not yet flushed     *)
(*   stdin_pipe   frames flushed and not yet read by exiftool              *)
(*   stdout_pipe  bytes exiftool has written and no thread has read        *)
(*   alive        the exiftool process runs                                *)
(*   th           per thread: where it is in read_sidecar, update_sidecar  *)
(*                and _exiftoolSubmit, and their local variables           *)
(*   budget       the calls each thread still makes                        *)
(*   turn         the thread that took the last step (0: none yet)         *)
(*   switches     the times the turn has passed to another thread          *)
(* History:                                                                *)
(*   obs          per thread, of its current _exiftoolSubmit: its number,  *)
(*                the bytes read, whether a read met end-of-file and the   *)
(*                payload exiftool printed for it; of each finished        *)
(*                _exiftoolSubmit (done): these, the text decoded and the  *)
(*                value returned; and the log of its finished read_sidecar *)
(*                and update_sidecar calls                                 *)
(*   calls        the _exiftoolSubmit calls made so far                    *)
(*   overlapped   two _exiftoolSubmit calls have been in flight at once    *)
(*   collided     exiftool has printed a payload holding the sentinel of   *)
(*                the call it answers                                      *)
(***************************************************************************)
VARIABLES xmp, stdin_buf, stdin_pipe, stdout_pipe, alive, th, budget, turn, switches

VARIABLES obs, calls, overlapped, collided

diskVars == <<dirs, fs, marker>>

procVars == <<pc, metadata, pending, todo, cur, err>>

histVars == <<startMarker, startFs, moves, served, migrated, reruns, last, prevRun,
              fs0, held, sidecar_writes>>

toolVars == <<xmp, stdin_buf, stdin_pipe, stdout_pipe, alive>>

smVars == <<toolVars, th, budget, turn, switches, obs, calls, overlapped, collided>>

vars == <<diskVars, procVars, histVars, smVars>>

Root == <<>>

Missing == [file |-> "missing", version |-> 0]

Empty == [file |-> "empty", version |-> 0]

\* library.json holding {"version": v}
Holds(v) == [file |-> "json", version |-> v]

Stems == <<"1", "2", "3", "4">>

Exts == <<"jpg", "png", "gif", "webm">>

AssetIds == 1..MaxAssets

AssetName(k) == <<Stems[k], Exts[k]>>

\* path.suffix, without its dot
suffix(name) == IF Len(name) > 1 THEN name[Len(name)] ELSE ""

\* path.with_suffix(path.suffix + ".xmp")
with_xmp(name) == Append(name, "xmp")

MarkerName == <<"library", "json">>

AssetNames == {AssetName(k) : k \in AssetIds}

SidecarNames == {with_xmp(n) : n \in AssetNames}

File(dir, name) == [dir |-> dir, name |-> name]

is_file(dir, name) == File(dir, name) \in DOMAIN fs

\* Path.is_dir
is_dir(dir) == dir \in dirs

\* the directory and all its parents (mkdir(parents=True))
Parents(dir) == {SubSeq(dir, 1, n) : n \in 0..Len(dir)}

\* JSON values: a string, a number (by its digits), a list of strings
JStr(text) == [t |-> "str", v |-> <<text>>]

JList(texts) == [t |-> "list", v |-> texts]

\* the text of a JSON string or number
TextOf(j) == j.v[1]

JInt(n) == [t |-> "int", v |-> <<Str(n)>>]

\* isinstance(v, str)
IsStr(v) == v.t = "str"

Digits(n, w) == rjust(Str(n), w, "0")

\* "YYYY:MM:DD HH:MM:SS", as exiftool prints a date without sub-seconds
ExifText(y, m, d) ==
    Digits(y, 4) \o <<":">> \o Digits(m, 2) \o <<":">> \o Digits(d, 2)
    \o <<" ", "0", "3", ":", "0", "4", ":", "0", "5">>

\* what a sidecar may hold for an asset: a capture time, none, one in
\* another notation, or one exiftool prints as a number
SidecarDocs(k) ==
    { [SourceFile |-> JStr(<<Stems[k]>>), DateTimeOriginal |-> JStr(ExifText(2020, 1, k))],
      [SourceFile |-> JStr(<<Stems[k]>>)],
      [SourceFile |-> JStr(<<Stems[k]>>),
       DateTimeOriginal |-> JStr(<<"2", "0", "2", "0", "-", "0", "1", "-", "0", "2">>)],
      [SourceFile |-> JStr(<<Stems[k]>>), DateTimeOriginal |-> JInt(2020)] }

\* dict.get / dict[key]
HasKey(doc, key) == key \in DOMAIN doc

Entry(isfile, name) == [isfile |-> isfile, name |-> name]

\* root.iterdir(): the regular files and the directories directly in root
iterdir ==
    {Entry(TRUE, f.name) : f \in {g \in DOMAIN fs : g.dir = Root}}
    \cup (IF marker = Missing THEN {} ELSE {Entry(TRUE, MarkerName)})
    \cup {Entry(FALSE, <<"dir">> \o d[1]) : d \in {e \in dirs : Len(e) = 1}}

(***************************************************************************)
(* Posts of the catalog (api/types.py E621Post): the fields the storage    *)
(* reads.                                                                  *)
(***************************************************************************)
\* "YYYY-MM-DDT00:00:00.000000+00:00"
IsoText(y, m, d) ==
    Digits(y, 4) \o <<"-">> \o Digits(m, 2) \o <<"-">> \o Digits(d, 2)
    \o <<"T", "0", "0", ":", "0", "0", ":", "0", "0", ".",
         "0", "0", "0", "0", "0", "0", "+", "0", "0", ":", "0", "0">>

Posts ==
    { [id |-> k, created_at |-> IsoText(2021, 5, k), ext |-> Exts[k],
       description |-> <<>>, tags |-> <<<<"a">>, <<"b">>>>] : k \in AssetIds }
    \cup { [id |-> 1, created_at |-> <<"n", "o", "w">>, ext |-> Exts[1],
            description |-> <<>>, tags |-> <<>>] }

(***************************************************************************)
(* Initial states: no storage root at all, or a root holding any set of    *)
(* top-level assets and sidecars, with or without a version marker.        *)
(***************************************************************************)
DiskVersions == {-1, 0, 1, 2}

\* what exiftool reports for a file that is no sidecar
NoDoc == [SourceFile |-> JStr(<<>>)]

\* a completely written file
Whole(doc) == [doc |-> doc, chunks |-> 0, complete |-> TRUE]

\* the contents a top-level file may have in an initial archive
InitContents(name) ==
    IF name \in AssetNames THEN {Whole(NoDoc)}
    ELSE {Whole(d) : d \in SidecarDocs(CHOOSE k \in AssetIds : with_xmp(AssetName(k)) = name)}

InitDisk ==
    \/ /\ dirs = {}
       /\ fs = <<>>
       /\ marker = Missing
    \/ /\ dirs = {Root}
       /\ \E present \in SUBSET (AssetNames \cup SidecarNames) :
             \E content \in [present -> UNION {InitContents(n) : n \in present}] :
                /\ \A n \in present : content[n] \in InitContents(n)
                /\ fs = [f \in {File(Root, n) : n \in present} |-> content[f.name]]
       /\ marker \in {Missing} \cup {Holds(v) : v \in DiskVersions}

\* no _migration_0 has run
NoRun == [outcome |-> "none", at |-> "", err |-> "", fs |-> <<>>, marker |-> Missing]

InitProc ==
    /\ pc = "closed"
    /\ metadata = None
    /\ pending = <<>>
    /\ todo = {}
    /\ cur = None
    /\ err = ""

InitHist ==
    /\ startMarker = marker
    /\ startFs = fs
    /\ moves = 0
    /\ served = 0
    /\ migrated = FALSE
    /\ reruns = 0
    /\ last = NoRun
    /\ prevRun = NoRun
    /\ fs0 = fs
    /\ held = IF marker.file = "json" THEN {marker.version} ELSE {}
    /\ sidecar_writes = [k \in AssetIds |-> 0]

Callers == 1..NumCallers

\* a thread outside read_sidecar and update_sidecar
IdleThread ==
    [pc |-> "idle", kind |-> "none", post |-> 0, sidecar |-> <<>>, had_file |-> FALSE,
     ncalls |-> 0, nwrites |-> 0, phase |-> "none", frames |-> <<>>, call_id |-> 0, response |-> <<>>]

\* nothing observed of a call
NoCall ==
    [no |-> 0, got |-> <<>>, sawEof |-> FALSE, reply |-> <<>>, done |-> <<>>,
     log |-> <<>>]

\* no exiftool session: the repository writes sidecars with one exiftool
\* process per file (_write_sidecar, repo.py lines 105-132)
NoSidecarManager ==
    /\ xmp = <<>>
    /\ stdin_buf = <<>>
    /\ stdin_pipe = <<>>
    /\ stdout_pipe = <<>>
    /\ alive = FALSE
    /\ th = [c \in Callers |-> IdleThread]
    /\ budget = [c \in Callers |-> 0]
    /\ turn = 0
    /\ switches = 0
    /\ obs = [c \in Callers |-> NoCall]
    /\ calls = 0
    /\ overlapped = FALSE
    /\ collided = FALSE

Init == InitDisk /\ InitProc /\ InitHist /\ NoSidecarManager

(***************************************************************************)
(* storage/repo.py: AssetRepository                                        *)
(***************************************************************************)
\* the steps of _migration_0 and of the _write_metadata that ends it
M0Pcs == {"m0_iter", "m0_loop", "m0_mkdir", "m0_rename_asset",
          "m0_rename_sidecar", "m0_done", "wm_open", "wm_dump"}

\* the steps of __init__ before perform_migrations
CtorPcs == {"init_open", "init_dump", "load", "exiftool_ver", "check_version"}

\* an exception leaves the process: nothing in the repository catches it
Unwind(e) ==
    /\ pc' = "closed"
    /\ err' = e
    /\ metadata' = None
    /\ pending' = <<>>
    /\ todo' = {}
    /\ cur' = None

\* the running _migration_0 ends, as outcome by exception e, with the disk
\* as newFs, newMarker
EndRun(outcome, e, newFs, newMarker) ==
    last' = [outcome |-> outcome, at |-> pc, err |-> e, fs |-> newFs,
             marker |-> newMarker]

\* range(a, b)
range(a, b) == [i \in 1..(IF b > a THEN b - a ELSE 0) |-> a + i - 1]

\* mutant: the library is initialised on every open
needs_create_always(ds) == TRUE

\* whether __init__ initialises the library, line 45
needs_create(ds) == Root \notin ds

\* __init__, lines 39-49: the root is created when it is no directory
Construct ==
    /\ pc = "closed"
    /\ IF needs_create(dirs)
       THEN /\ dirs' = dirs \cup {Root}
            /\ pc' = "init_open"
       ELSE /\ pc' = "load"
            /\ UNCHANGED dirs
    /\ err' = ""
    /\ served' = 0
    /\ migrated' = FALSE
    /\ reruns' = 0
    /\ UNCHANGED <<fs, marker, metadata, pending, todo, cur>>
    /\ UNCHANGED <<startMarker, startFs, moves, last, prevRun, fs0, held, sidecar_writes>>

\* the version _write_metadata persists: self.metadata, as loaded or set
dumped_version(md) == md.version

\* open(root / "library.json", "w") and json.dump: __init__ lines 48-49
\* and _write_metadata lines 102-103
WriteMarkerFile ==
    /\ pc \in {"init_open", "init_dump", "wm_open", "wm_dump"}
    /\ CASE pc = "init_open" ->
              /\ marker' = Empty
              /\ pc' = "init_dump"
              /\ UNCHANGED <<last, pending, migrated>>
         [] pc = "init_dump" ->
              /\ marker' = Holds(latest_version)
              /\ pc' = "load"
              /\ UNCHANGED <<last, pending, migrated>>
         [] pc = "wm_open" ->
              /\ marker' = Empty
              /\ pc' = "wm_dump"
              /\ UNCHANGED <<last, pending, migrated>>
         [] pc = "wm_dump" ->
              /\ marker' = Holds(dumped_version(metadata))
              /\ pc' = "dispatch"
              /\ EndRun("done", "", fs, Holds(dumped_version(metadata)))
              /\ UNCHANGED <<pending, migrated>>
    /\ held' = IF marker'.file = "json" THEN held \cup {marker'.version} ELSE held
    /\ UNCHANGED <<dirs, fs, metadata, todo, cur, err>>
    /\ UNCHANGED <<startMarker, startFs, moves, served, reruns, prevRun, fs0, sidecar_writes>>

\* mutant: an archive without library.json is taken to be at the latest
\* version
loaded_metadata_latest(m) ==
    IF m = Missing THEN [version |-> latest_version] ELSE [version |-> m.version]

\* self.metadata after lines 51-57, of a library.json that is absent or
\* holds a document
loaded_metadata(m) ==
    IF m = Missing THEN [version |-> 0] ELSE [version |-> m.version]

\* __init__, lines 51-57
LoadMetadata ==
    /\ pc = "load"
    /\ IF marker = Empty
       THEN Unwind("JSONDecodeError")
       ELSE /\ metadata' = loaded_metadata(marker)
            /\ pc' = "exiftool_ver"
            /\ UNCHANGED <<pending, todo, cur, err>>
    /\ UNCHANGED <<diskVars, histVars>>

\* __init__, lines 59-65: exiftool -ver succeeds or not
CheckExiftool ==
    /\ pc = "exiftool_ver"
    /\ \E found \in BOOLEAN :
          IF found
          THEN /\ pc' = "check_version"
               /\ UNCHANGED <<metadata, pending, todo, cur, err>>
          ELSE Unwind("RuntimeError")
    /\ UNCHANGED <<diskVars, histVars>>

\* mutant: the comparison of line 76 reversed
needs_migration_reversed(md) == md.version > latest_version

\* whether __init__ calls perform_migrations, line 76
needs_migration(md) == md.version < latest_version

\* __init__, lines 75-77, and the range of perform_migrations, line 224
CheckVersion ==
    /\ pc = "check_version"
    /\ IF needs_migration(metadata)
       THEN /\ pending' = range(metadata.version, latest_version)
            /\ pc' = "dispatch"
       ELSE /\ pc' = "ready"
            /\ UNCHANGED pending
    /\ UNCHANGED <<metadata, todo, cur, err>>
    /\ UNCHANGED <<diskVars, histVars>>

\* _migration_0 is entered: line 188
StartMigration0 ==
    /\ pc' = "m0_iter"
    /\ startMarker' = marker
    /\ startFs' = fs
    /\ moves' = 0
    /\ prevRun' = last

\* mutant: every version is taken to have a transition
has_migration_any(migration) == TRUE

\* the cases of the match that name a transition, lines 226-228
has_migration(migration) == migration = 0

\* perform_migrations, lines 224-230
Dispatch ==
    /\ pc = "dispatch"
    /\ IF pending = <<>>
       THEN /\ pc' = "ready"
            /\ migrated' = TRUE
            /\ UNCHANGED <<metadata, pending, todo, cur, err>>
            /\ UNCHANGED <<startMarker, startFs, moves, prevRun>>
       ELSE IF has_migration(Head(pending))
       THEN /\ StartMigration0
            /\ pending' = Tail(pending)
            /\ UNCHANGED <<metadata, todo, cur, err, migrated>>
       ELSE /\ Unwind("ValueError")
            /\ UNCHANGED <<startMarker, startFs, moves, prevRun, migrated>>
    /\ UNCHANGED <<diskVars, served, reruns, last, fs0, held, sidecar_writes>>

\* mutant: a pair without a capture time is filed under a default date
migration_dest_default(exif) ==
    IF ~HasKey(exif, "DateTimeOriginal") THEN Ok(<<Digits(0, 4), Digits(0, 2), Digits(0, 2)>>)
    ELSE IF ~IsStr(exif.DateTimeOriginal) THEN Raise("TypeError")
    ELSE LET date == time_strptime(Slice(TextOf(exif.DateTimeOriginal), 10), FmtColonDate)
         IN  IF ~date.ok THEN date ELSE date2path(date.val)

\* the destination directory of a pair, lines 201-208: the capture date of
\* the sidecar, as a path below the root
migration_dest(exif) ==
    IF ~HasKey(exif, "DateTimeOriginal") THEN Raise("KeyError")
    ELSE IF ~IsStr(exif.DateTimeOriginal) THEN Raise("TypeError")
    ELSE LET date == time_strptime(Slice(TextOf(exif.DateTimeOriginal), 10), FmtColonDate)
         IN  IF ~date.ok THEN date ELSE date2path(date.val)

\* lines 190-199: what the loop does with an entry of the root
entry_kind(name) ==
    IF name = MarkerName THEN "marker"
    ELSE IF suffix(name) = "xmp" THEN "sidecar"
    ELSE IF is_file(Root, name) /\ is_file(Root, with_xmp(name)) THEN "pair"
    ELSE "other"

\* the for loop of line 189 is over
loop_over(remaining) == remaining = {}

\* mutant: the version is incremented instead of set
migrated_version_bump(md) == [version |-> md.version + 1]

\* the version _migration_0 records, line 217
migrated_version(md) == [version |-> 1]

\* Path.rename(dst) of a regular file: dst is replaced when it exists
renamed(files, src, dst) ==
    [f \in (DOMAIN files \ {src}) \cup {dst} |->
        IF f = dst THEN files[src] ELSE files[f]]

\* _migration_0, lines 188-218
Migration0 ==
    /\ pc \in M0Pcs \ {"wm_open", "wm_dump"}
    /\ CASE pc = "m0_iter" ->
              /\ todo' = iterdir
              /\ pc' = "m0_loop"
              /\ UNCHANGED <<dirs, fs, metadata, pending, cur, err, moves, last>>
         [] pc = "m0_loop" /\ loop_over(todo) ->
              /\ pc' = "m0_done"
              /\ UNCHANGED <<dirs, fs, metadata, pending, todo, cur, err, moves, last>>
         [] pc = "m0_loop" /\ ~loop_over(todo) ->
              \E e \in todo :
                 IF entry_kind(e.name) # "pair"
                 THEN /\ todo' = todo \ {e}
                      /\ UNCHANGED <<dirs, fs, metadata, pending, cur, err, pc, moves, last>>
                 ELSE \E toolOk \in BOOLEAN :
                         LET dest == IF toolOk THEN migration_dest(fs[File(Root, with_xmp(e.name))].doc)
                                     ELSE Raise("RuntimeError")
                         IN  IF dest.ok
                             THEN /\ todo' = todo \ {e}
                                  /\ cur' = [asset |-> e.name, sidecar |-> with_xmp(e.name),
                                             dest |-> dest.val]
                                  /\ pc' = "m0_mkdir"
                                  /\ UNCHANGED <<dirs, fs, metadata, pending, err, moves, last>>
                             ELSE /\ Unwind(dest.err)
                                  /\ EndRun("aborted", dest.err, fs, marker)
                                  /\ UNCHANGED <<dirs, fs, moves>>
         [] pc = "m0_mkdir" ->
              \E done \in BOOLEAN :
                 IF done
                 THEN /\ dirs' = dirs \cup Parents(cur.dest)
                      /\ pc' = "m0_rename_asset"
                      /\ UNCHANGED <<fs, metadata, pending, todo, cur, err, moves, last>>
                 ELSE /\ Unwind("OSError")
                      /\ EndRun("aborted", "OSError", fs, marker)
                      /\ UNCHANGED <<dirs, fs, moves>>
         [] pc = "m0_rename_asset" ->
              \E done \in BOOLEAN :
                 IF done
                 THEN /\ fs' = renamed(fs, File(Root, cur.asset), File(cur.dest, cur.asset))
                      /\ moves' = moves + 1
                      /\ pc' = "m0_rename_sidecar"
                      /\ UNCHANGED <<dirs, metadata, pending, todo, cur, err, last>>
                 ELSE /\ Unwind("OSError")
                      /\ EndRun("aborted", "OSError", fs, marker)
                      /\ UNCHANGED <<dirs, fs, moves>>
         [] pc = "m0_rename_sidecar" ->
              \E done \in BOOLEAN :
                 IF done
                 THEN /\ fs' = renamed(fs, File(Root, cur.sidecar), File(cur.dest, cur.sidecar))
                      /\ moves' = moves + 1
                      /\ cur' = None
                      /\ pc' = "m0_loop"
                      /\ UNCHANGED <<dirs, metadata, pending, todo, err, last>>
                 ELSE /\ Unwind("OSError")
                      /\ EndRun("aborted", "OSError", fs, marker)
                      /\ UNCHANGED <<dirs, fs, moves>>
         [] pc = "m0_done" ->
              /\ metadata' = migrated_version(metadata)
              /\ pc' = "wm_open"
              /\ UNCHANGED <<dirs, fs, pending, todo, cur, err, moves, last>>
    /\ UNCHANGED marker
    /\ UNCHANGED <<startMarker, startFs, served, migrated, reruns, prevRun, fs0, held,
                    sidecar_writes>>

\* the asset and sidecar paths of a post, update_post lines 163-172
post_paths(post) ==
    LET date == time_strptime(Slice(post.created_at, 10), FmtDashDate)
    IN  IF ~date.ok THEN date
        ELSE LET dir == date2path(date.val)
                 name == <<Stems[post.id], post.ext>>
             IN  IF ~dir.ok THEN dir
                 ELSE Ok([dir |-> dir.val, dest |-> name, sidecar |-> with_xmp(name)])

\* the steps of update_post after its first
UpPcs == {"up_fetch", "up_open", "up_chunk", "up_rename", "up_unlink", "up_sidecar"}

\* mutant: the download goes straight to dest
with_part_none(name) == name

\* dest.with_suffix(dest.suffix + ".__part__")
with_part(name) == Append(name, "__part__")

\* files with one more file, or one file's content replaced
written(files, f, content) ==
    [g \in DOMAIN files \cup {f} |-> IF g = f THEN content ELSE files[g]]

\* Path.unlink(missing_ok=True)
unlinked(files, f) == [g \in DOMAIN files \ {f} |-> files[g]]

\* what exiftool stores for the arguments of _write_sidecar, lines 111-123
sidecar_doc(post) ==
    [SourceFile |-> JStr(<<Stems[post.id]>>),
     DateTimeOriginal |-> JStr(post.created_at),
     TagsList |-> JList(post.tags),
     Description |-> JStr(post.description)]

\* an exception leaves update_post; the instance stays
UpRaise(e) ==
    /\ pc' = "ready"
    /\ err' = e
    /\ cur' = None

\* update_post, lines 157-180, with _fetch_post, lines 79-96, and
\* _write_sidecar, lines 105-132
UpdatePost ==
    /\ pc \in {"ready"} \cup UpPcs
    /\ CASE pc = "ready" ->
              /\ served < MaxUpdates
              /\ served' = served + 1
              /\ \E post \in Posts :
                    LET paths == post_paths(post)
                    IN  IF ~paths.ok
                        THEN /\ err' = paths.err
                             /\ UNCHANGED <<dirs, pc, cur>>
                        ELSE /\ dirs' = dirs \cup Parents(paths.val.dir)
                             /\ cur' = [post |-> post, dir |-> paths.val.dir,
                                        dest |-> paths.val.dest,
                                        sidecar |-> paths.val.sidecar,
                                        total |-> 0, raising |-> "",
                                        direct |-> FALSE]
                             /\ pc' = "up_fetch"
                             /\ err' = ""
              /\ UNCHANGED <<fs, sidecar_writes>>
         [] pc = "up_fetch" ->
              \* line 177, and the request of line 88
              /\ IF is_file(cur.dir, cur.dest)
                 THEN /\ pc' = "up_sidecar"
                      /\ UNCHANGED <<cur, err>>
                 ELSE \E size \in 0..MaxChunks :
                         IF size = 0
                         THEN UpRaise("ConnectionError")
                         ELSE /\ cur' = [cur EXCEPT !.total = size]
                              /\ pc' = "up_open"
                              /\ UNCHANGED err
              /\ UNCHANGED <<dirs, fs, served, sidecar_writes>>
         [] pc = "up_open" ->
              \* line 91
              /\ fs' = written(fs, File(cur.dir, with_part(cur.dest)),
                               [doc |-> NoDoc, chunks |-> 0, complete |-> FALSE])
              /\ pc' = "up_chunk"
              /\ UNCHANGED <<dirs, cur, err, served, sidecar_writes>>
         [] pc = "up_chunk" ->
              \* lines 92-93
              LET temp == File(cur.dir, with_part(cur.dest))
              IN  \E arrives \in BOOLEAN :
                     IF arrives
                     THEN /\ fs' = written(fs, temp,
                                     [doc |-> NoDoc, chunks |-> fs[temp].chunks + 1,
                                      complete |-> fs[temp].chunks + 1 = cur.total])
                          /\ pc' = IF fs[temp].chunks + 1 = cur.total
                                   THEN "up_rename" ELSE "up_chunk"
                          /\ UNCHANGED <<dirs, cur, err, served, sidecar_writes>>
                     ELSE /\ cur' = [cur EXCEPT !.raising = "ChunkedEncodingError"]
                          /\ pc' = "up_unlink"
                          /\ UNCHANGED <<dirs, fs, err, served, sidecar_writes>>
         [] pc = "up_rename" ->
              \* line 94
              /\ fs' = renamed(fs, File(cur.dir, with_part(cur.dest)),
                               File(cur.dir, cur.dest))
              /\ pc' = "up_unlink"
              /\ UNCHANGED <<dirs, cur, err, served, sidecar_writes>>
         [] pc = "up_unlink" ->
              \* line 96
              /\ fs' = unlinked(fs, File(cur.dir, with_part(cur.dest)))
              /\ IF cur.raising # ""
                 THEN UpRaise(cur.raising)
                 ELSE IF cur.direct
                 THEN /\ pc' = "ready"
                      /\ cur' = None
                      /\ UNCHANGED err
                 ELSE /\ pc' = "up_sidecar"
                      /\ UNCHANGED <<cur, err>>
              /\ UNCHANGED <<dirs, served, sidecar_writes>>
         [] pc = "up_sidecar" ->
              \* line 180
              /\ sidecar_writes' = [sidecar_writes EXCEPT ![cur.post.id] = @ + 1]
              /\ \E toolOk \in BOOLEAN :
                    IF toolOk
                    THEN /\ fs' = written(fs, File(cur.dir, cur.sidecar),
                                          Whole(sidecar_doc(cur.post)))
                         /\ pc' = "ready"
                         /\ cur' = None
                         /\ UNCHANGED err
                    ELSE /\ UpRaise("RuntimeError")
                         /\ UNCHANGED fs
              /\ UNCHANGED <<dirs, served>>
    /\ UNCHANGED <<marker, metadata, pending, todo>>
    /\ UNCHANGED <<startMarker, startFs, moves, migrated, reruns, last, prevRun,
                    fs0, held>>

\* the process ends: it returns from the command line's main, or is killed
\* at any point
Crash ==
    /\ pc # "closed"
    /\ Unwind(IF pc = "ready" THEN "" ELSE "Killed")
    /\ IF pc \in M0Pcs THEN EndRun("aborted", "Killed", fs, marker)
       ELSE UNCHANGED last
    /\ UNCHANGED diskVars
    /\ UNCHANGED <<startMarker, startFs, moves, served, migrated, reruns, prevRun,
                    fs0, held, sidecar_writes>>

\* _migration_0 called once more on the constructed instance
CallMigration0 ==
    /\ pc = "ready"
    /\ reruns < MaxReruns
    /\ StartMigration0
    /\ reruns' = reruns + 1
    /\ UNCHANGED <<diskVars, metadata, pending, todo, cur, err>>
    /\ UNCHANGED <<served, migrated, last, fs0, held, sidecar_writes>>

\* _fetch_post(url, dest) called on the constructed instance with a dest
\* in the root: lines 86-88, then the steps of lines 90-96
CallFetchPost ==
    /\ pc = "ready"
    /\ reruns < MaxReruns
    /\ reruns' = reruns + 1
    /\ \E k \in 1..MaxFetched, size \in 0..MaxChunks :
          IF size = 0
          THEN /\ err' = "ConnectionError"
               /\ UNCHANGED <<pc, cur>>
          ELSE /\ cur' = [post |-> CHOOSE q \in Posts : q.id = k /\ q.tags # <<>>,
                          dir |-> Root,
                          dest |-> AssetName(k),
                          sidecar |-> with_xmp(AssetName(k)),
                          total |-> size, raising |-> "", direct |-> TRUE]
               /\ pc' = "up_open"
               /\ err' = ""
    /\ UNCHANGED <<diskVars, metadata, pending, todo>>
    /\ UNCHANGED <<startMarker, startFs, moves, served, migrated, last, prevRun,
                    fs0, held, sidecar_writes>>

Next ==
    \/ Construct /\ UNCHANGED smVars
    \/ WriteMarkerFile /\ UNCHANGED smVars
    \/ LoadMetadata /\ UNCHANGED smVars
    \/ CheckExiftool /\ UNCHANGED smVars
    \/ CheckVersion /\ UNCHANGED smVars
    \/ Dispatch /\ UNCHANGED smVars
    \/ Migration0 /\ UNCHANGED smVars
    \/ UpdatePost /\ UNCHANGED smVars
    \/ Crash /\ UNCHANGED smVars

Spec == Init /\ [][Next]_vars

\* the repository with _migration_0 also run again by its caller
NextMig == Next \/ (CallMigration0 /\ UNCHANGED smVars)

SpecMig == Init /\ [][NextMig]_vars

\* the repository with _fetch_post also called by its caller
NextFetch == Next \/ (CallFetchPost /\ UNCHANGED smVars)

SpecFetch == Init /\ [][NextFetch]_vars

TypeOK ==
    /\ pc \in {"closed", "ready", "dispatch", "deleted", "exif_in", "exif_out",
              "fav_in", "fav_loop", "fav_batch", "fav_out"} \cup M0Pcs \cup CtorPcs \cup UpPcs
             \cup {"del_flush", "del_wait"}
    /\ marker.file \in {"missing", "empty", "json"}
    /\ sidecar_writes \in [AssetIds -> Nat]

(***************************************************************************)
(* storage/sidecar_manager.py: the text exchanged with exiftool.           *)
(* A byte is a one-character string; all text on the pipes is ASCII, so    *)
(* encode("utf-8") and decode("utf-8") map a character to one byte.         *)
(***************************************************************************)
K_SourceFile == <<"S", "o", "u", "r", "c", "e", "F", "i", "l", "e">>

K_DateTimeOriginal ==
    <<"D", "a", "t", "e", "T", "i", "m", "e", "O", "r", "i", "g", "i", "n", "a", "l">>

K_Description == <<"D", "e", "s", "c", "r", "i", "p", "t", "i", "o", "n">>

K_TagsList == <<"T", "a", "g", "s", "L", "i", "s", "t">>

\* "{e6sync}", update_sidecar lines 233-234
ManagedTag == <<"{", "e", "6", "s", "y", "n", "c", "}">>

\* "-j", "-execute", _exiftoolSubmit line 166
OptJson == <<"-", "j">>

OptExecute == <<"-", "e", "x", "e", "c", "u", "t", "e">>

\* "-overwrite_original", update_sidecar line 252
OptOverwrite == <<"-", "o", "v", "e", "r", "w", "r", "i", "t", "e", "_",
                  "o", "r", "i", "g", "i", "n", "a", "l">>

\* "#[CSTR]", _exiftoolSubmit line 173
CStrMark == <<"#", "[", "C", "S", "T", "R", "]">>

\* the non-breaking space U+00A0, the one non-ASCII character of the model
NBSP == "U+00A0"

\* ("{ready" + str(call_id) + "}").encode("utf-8"), _exiftoolSubmit line 187
ready_of(call_id) == <<"{", "r", "e", "a", "d", "y">> \o Str(call_id) \o <<"}">>

\* response[-len(ready):], _exiftoolSubmit line 190
tail_of(response, n) ==
    IF Len(response) <= n THEN response
    ELSE SubSeq(response, Len(response) - n + 1, Len(response))

\* mutant: the first n bytes are cut off, not the last n
before_tail_cuts_front(response, n) ==
    IF Len(response) <= n THEN <<>> ELSE SubSeq(response, n + 1, Len(response))

\* response[:-len(ready)], _exiftoolSubmit line 194
before_tail(response, n) ==
    IF Len(response) <= n THEN <<>> ELSE SubSeq(response, 1, Len(response) - n)

Whitespace == {" ", "\n", "\t", "\r"}

RECURSIVE lstrip(_)
lstrip(s) == IF s # <<>> /\ Head(s) \in Whitespace THEN lstrip(Tail(s)) ELSE s

RECURSIVE rstrip(_)
rstrip(s) ==
    IF s # <<>> /\ s[Len(s)] \in Whitespace THEN rstrip(SubSeq(s, 1, Len(s) - 1))
    ELSE s

\* str.strip()
strip(s) == rstrip(lstrip(s))

\* one character under the unicode_escape codec
unicode_escape_char(c) ==
    CASE c = "\\" -> <<"\\", "\\">>
      [] c = "\n" -> <<"\\", "n">>
      [] c = "\t" -> <<"\\", "t">>
      [] c = "\r" -> <<"\\", "r">>
      [] c = NBSP -> <<"\\", "x", "a", "0">>
      [] OTHER -> <<c>>

RECURSIVE unicode_escape(_)
\* arg.encode("unicode_escape"), _exiftoolSubmit line 174
unicode_escape(s) ==
    IF s = <<>> THEN <<>>
    ELSE unicode_escape_char(Head(s)) \o unicode_escape(Tail(s))

RECURSIVE backslashreplace(_)
\* val.encode("ascii", "backslashreplace").decode(), fromPost line 49
backslashreplace(s) ==
    IF s = <<>> THEN <<>>
    ELSE (IF Head(s) = NBSP THEN <<"\\", "x", "a", "0">> ELSE <<Head(s)>>)
         \o backslashreplace(Tail(s))

\* one frame on exiftool's standard input, _exiftoolSubmit lines 173-175
arg_enc(arg) == CStrMark \o unicode_escape(arg) \o <<"\n">>

\* whether text starts with pre
startswith(text, pre) == Len(text) >= Len(pre) /\ SubSeq(text, 1, Len(pre)) = pre

\* text[n:]
from_index(text, n) == SubSeq(text, n + 1, Len(text))

(***************************************************************************)
(* json.loads on the documents exiftool -j prints: strings, lists,         *)
(* objects and unsigned integers.  A value is [t, v]: a string holds its   *)
(* text, an array its items, an object its members [k, val] in order.      *)
(***************************************************************************)
JArr(items) == [t |-> "array", v |-> items]

JObj(members) == [t |-> "object", v |-> members]

JNone == [t |-> "none", v |-> <<>>]

Parsed(val, next) == [ok |-> TRUE, val |-> val, next |-> next]

NoParse == [ok |-> FALSE, val |-> JNone, next |-> 0]

RECURSIVE skip_ws(_, _)
skip_ws(text, i) ==
    IF i <= Len(text) /\ text[i] \in Whitespace THEN skip_ws(text, i + 1) ELSE i

\* the character at i, or "" past the end
char_at(text, i) == IF i >= 1 /\ i <= Len(text) THEN text[i] ELSE ""

RECURSIVE parse_string(_, _, _)
\* the rest of a JSON string whose opening quote is before i
parse_string(text, i, acc) ==
    LET c == char_at(text, i)
        e == char_at(text, i + 1)
    IN  IF c = "" \/ c \in {"\n", "\t", "\r"} THEN NoParse
        ELSE IF c = "\"" THEN Parsed(JStr(acc), i + 1)
        ELSE IF c # "\\" THEN parse_string(text, i + 1, Append(acc, c))
        ELSE IF e \in {"\"", "\\", "/"} THEN parse_string(text, i + 2, Append(acc, e))
        ELSE IF e = "n" THEN parse_string(text, i + 2, Append(acc, "\n"))
        ELSE IF e = "t" THEN parse_string(text, i + 2, Append(acc, "\t"))
        ELSE IF e = "r" THEN parse_string(text, i + 2, Append(acc, "\r"))
        ELSE NoParse

RECURSIVE parse_value(_, _)
RECURSIVE parse_items(_, _, _)
RECURSIVE parse_members(_, _, _)
parse_value(text, i) ==
    LET j == skip_ws(text, i)
        c == char_at(text, j)
        k == skip_ws(text, j + 1)
        w == DigitRun(text, j, Len(text))
    IN  IF c = "\"" THEN parse_string(text, j + 1, <<>>)
        ELSE IF c = "[" THEN (IF char_at(text, k) = "]" THEN Parsed(JArr(<<>>), k + 1)
                              ELSE parse_items(text, k, <<>>))
        ELSE IF c = "{" THEN (IF char_at(text, k) = "}" THEN Parsed(JObj(<<>>), k + 1)
                              ELSE parse_members(text, k, <<>>))
        ELSE IF IsDigit(c) /\ (w = 1 \/ c # "0")
             THEN Parsed([t |-> "int", v |-> <<SubSeq(text, j, j + w - 1)>>], j + w)
        ELSE NoParse

parse_items(text, i, acc) ==
    LET r == parse_value(text, i)
        k == skip_ws(text, r.next)
    IN  IF ~r.ok THEN NoParse
        ELSE IF char_at(text, k) = "," THEN parse_items(text, k + 1, Append(acc, r.val))
        ELSE IF char_at(text, k) = "]" THEN Parsed(JArr(Append(acc, r.val)), k + 1)
        ELSE NoParse

parse_members(text, i, acc) ==
    LET j == skip_ws(text, i)
        key == IF char_at(text, j) = "\"" THEN parse_string(text, j + 1, <<>>) ELSE NoParse
        c == skip_ws(text, key.next)
        r == IF key.ok /\ char_at(text, c) = ":" THEN parse_value(text, c + 1) ELSE NoParse
        k == skip_ws(text, r.next)
        member == [k |-> TextOf(key.val), val |-> r.val]
    IN  IF ~r.ok THEN NoParse
        ELSE IF char_at(text, k) = "," THEN parse_members(text, k + 1, Append(acc, member))
        ELSE IF char_at(text, k) = "}" THEN Parsed(JObj(Append(acc, member)), k + 1)
        ELSE NoParse

\* json.loads: the value, or JSONDecodeError
json_loads(text) ==
    LET r == parse_value(text, 1)
    IN  IF r.ok /\ skip_ws(text, r.next) > Len(text) THEN Ok(r.val)
        ELSE Raise("JSONDecodeError")

\* mutant: a missing member reads as the empty string
dict_get_empty(obj, key) ==
    LET at == {i \in 1..Len(obj.v) : obj.v[i].k = key}
    IN  IF at = {} THEN [t |-> "str", v |-> << <<>> >>]
        ELSE obj.v[CHOOSE i \in at : \A j \in at : j <= i].val

\* dict.get(key): the value of the last member with that key, or None
dict_get(obj, key) ==
    LET at == {i \in 1..Len(obj.v) : obj.v[i].k = key}
    IN  IF at = {} THEN JNone
        ELSE obj.v[CHOOSE i \in at : \A j \in at : j <= i].val

(***************************************************************************)
(* datetime: strftime and equality.                                        *)
(***************************************************************************)
\* "%Y-%m-%dT%H:%M:%S.%f%z", fromPost line 40
FmtPost == <<"%Y", "-", "%m", "-", "%d", "T", "%H", ":", "%M", ":", "%S", ".", "%f", "%z">>

\* "%Y:%m:%d %H:%M:%S.%f%z", fromExiftool line 71 and asExiftoolArgs line 100
FmtExifZone == <<"%Y", ":", "%m", ":", "%d", " ", "%H", ":", "%M", ":", "%S", ".", "%f", "%z">>

\* "%Y:%m:%d %H:%M:%S", fromExiftool line 71
FmtExifPlain == <<"%Y", ":", "%m", ":", "%d", " ", "%H", ":", "%M", ":", "%S">>

\* mutant: every offset is printed as +0000
zone_text_utc(off) == <<"+">> \o Digits(0, 2) \o Digits(0, 2)

\* an offset in minutes as %z prints it
zone_text(off) ==
    LET a == IF off < 0 THEN -off ELSE off
    IN  <<IF off < 0 THEN "-" ELSE "+">> \o Digits(a \div 60, 2) \o Digits(a % 60, 2)

RECURSIVE strftime(_, _, _)
\* datetime.strftime, from directive j of fmt on
strftime(dt, fmt, j) ==
    IF j > Len(fmt) THEN <<>>
    ELSE (CASE fmt[j] = "%Y" -> Digits(dt.year, 4)
            [] fmt[j] = "%m" -> Digits(dt.month, 2)
            [] fmt[j] = "%d" -> Digits(dt.day, 2)
            [] fmt[j] = "%H" -> Digits(dt.hour, 2)
            [] fmt[j] = "%M" -> Digits(dt.minute, 2)
            [] fmt[j] = "%S" -> Digits(dt.second, 2)
            [] fmt[j] = "%f" -> Digits(dt.microsecond, 6)
            [] fmt[j] = "%z" -> (IF dt.tzinfo = None THEN <<>>
                                 ELSE zone_text(dt.tzinfo.offset))
            [] OTHER -> <<fmt[j]>>)
         \o strftime(dt, fmt, j + 1)

DaysBeforeMonth == <<0, 31, 59, 90, 120, 151, 181, 212, 243, 273, 304, 334>>

IsLeap(y) == y % 4 = 0 /\ (y % 100 # 0 \/ y % 400 = 0)

\* date.toordinal
toordinal(dt) ==
    LET y == dt.year - 1
    IN  y * 365 + y \div 4 - y \div 100 + y \div 400 + DaysBeforeMonth[dt.month]
        + (IF dt.month > 2 /\ IsLeap(dt.year) THEN 1 ELSE 0) + dt.day

\* the minutes since 0001-01-01T00:00 UTC of an aware datetime
utc_minutes(dt) ==
    (toordinal(dt) * 24 + dt.hour) * 60 + dt.minute - dt.tzinfo.offset

\* datetime.__eq__: two naive values by their fields, two aware values by
\* their instant, a naive and an aware value never
datetime_eq(a, b) ==
    IF a.tzinfo = None /\ b.tzinfo = None THEN a = b
    ELSE IF a.tzinfo = None \/ b.tzinfo = None THEN FALSE
    ELSE /\ utc_minutes(a) = utc_minutes(b)
         /\ a.second = b.second
         /\ a.microsecond = b.microsecond

(***************************************************************************)
(* ExifData, lines 22-110.  An Optional field is a sequence: empty for     *)
(* None, else holding the value.  TagsList holds JSON values.               *)
(***************************************************************************)
\* mutant: a record that starts with an empty tag list
ExifData_empty_tags == [DateTimeOriginal |-> <<>>, Description |-> <<>>, TagsList |-> << <<>> >>]

\* ExifData()
ExifData == [DateTimeOriginal |-> <<>>, Description |-> <<>>, TagsList |-> <<>>]

RECURSIVE flatten_tags(_)
\* the loop of fromPost lines 54-56 over post.tags.items()
flatten_tags(items) ==
    IF items = <<>> THEN <<>>
    ELSE [i \in 1..Len(Head(items).tags) |-> JStr(Head(items).tags[i])]
         \o flatten_tags(Tail(items))

\* ExifData.fromPost, lines 34-61
fromPost(post) ==
    LET date == datetime_strptime(post.created_at, FmtPost)
    IN  IF ~date.ok THEN date
        ELSE Ok([DateTimeOriginal |-> <<date.val>>,
                 Description |-> IF post.description # <<>>
                                 THEN <<backslashreplace(post.description)>>
                                 ELSE <<>>,
                 TagsList |-> <<flatten_tags(post.tags)>>])

\* ExifData.fromExiftool, lines 63-91
fromExiftool(post) ==
    LET date == dict_get(post, K_DateTimeOriginal)
        zone == datetime_strptime(TextOf(date), FmtExifZone)
        plain == datetime_strptime(TextOf(date), FmtExifPlain)
        desc == dict_get(post, K_Description)
        tags == dict_get(post, K_TagsList)
        rest(dto) == Ok([DateTimeOriginal |-> dto,
                         Description |-> IF desc.t = "str" THEN <<TextOf(desc)>> ELSE <<>>,
                         TagsList |-> IF tags.t = "array" THEN <<tags.v>> ELSE << <<>> >>])
    IN  IF date.t # "str" THEN rest(<<>>)
        ELSE IF zone.ok THEN rest(<<zone.val>>)
        ELSE IF plain.ok THEN rest(<<plain.val>>)
        ELSE Raise("ValueError")

RECURSIVE tag_args(_)
\* ["-TagsList=" + tag for tag in self.TagsList], line 108
tag_args(tags) ==
    IF tags = <<>> THEN <<>>
    ELSE <<(<<"-">> \o K_TagsList \o <<"=">> \o TextOf(Head(tags)))>> \o tag_args(Tail(tags))

\* mutant: the tags are not rendered
asExiftoolArgs_without_tags(self) ==
    (IF self.DateTimeOriginal # <<>>
     THEN <<(<<"-">> \o K_DateTimeOriginal \o <<"=">>
             \o strftime(self.DateTimeOriginal[1], FmtExifZone, 1))>>
     ELSE <<>>)
    \o (IF self.Description # <<>>
        THEN <<(<<"-">> \o K_Description \o <<"=">> \o self.Description[1])>>
        ELSE <<>>)

\* ExifData.asExiftoolArgs, lines 93-110
asExiftoolArgs(self) ==
    (IF self.DateTimeOriginal # <<>>
     THEN <<(<<"-">> \o K_DateTimeOriginal \o <<"=">>
             \o strftime(self.DateTimeOriginal[1], FmtExifZone, 1))>>
     ELSE <<>>)
    \o (IF self.Description # <<>>
        THEN <<(<<"-">> \o K_Description \o <<"=">> \o self.Description[1])>>
        ELSE <<>>)
    \o (IF self.TagsList # <<>> THEN tag_args(self.TagsList[1]) ELSE <<>>)

\* the generated ExifData.__eq__: the fields compared in order
exif_eq(a, b) ==
    /\ Len(a.DateTimeOriginal) = Len(b.DateTimeOriginal)
    /\ a.DateTimeOriginal # <<>> => datetime_eq(a.DateTimeOriginal[1], b.DateTimeOriginal[1])
    /\ a.Description = b.Description
    /\ a.TagsList = b.TagsList

\* whether x is in the list
contains(list, x) == \E i \in 1..Len(list) : list[i] = x

\* mutant: the meta-tag is appended whatever the list holds
with_managed_tag_always(exif) ==
    [exif EXCEPT !.TagsList = <<Append(IF @ = <<>> THEN <<>> ELSE @[1], JStr(ManagedTag))>>]

\* new_exif with the meta-tag, update_sidecar lines 230-234; for a TagsList
\* of None the tag is appended to a list the record does not hold
with_managed_tag(exif) ==
    LET tags == IF exif.TagsList = <<>> THEN <<>> ELSE exif.TagsList[1]
    IN  IF exif.TagsList = <<>> \/ contains(tags, JStr(ManagedTag)) THEN exif
        ELSE [exif EXCEPT !.TagsList = <<Append(tags, JStr(ManagedTag))>>]

\* the arguments of the write, update_sidecar lines 246-252
write_args(exif, sidecar) == asExiftoolArgs(exif) \o <<OptOverwrite, sidecar>>

\* subscript [0] of what _exiftoolSubmit returned, read_sidecar line 216
first_of(ret) ==
    CASE ret.t = "none" -> Raise("TypeError")
      [] ret.t = "int" -> Raise("TypeError")
      [] ret.t = "object" -> Raise("KeyError")
      [] ret.t = "array" -> (IF ret.v = <<>> THEN Raise("IndexError") ELSE Ok(ret.v[1]))
      [] ret.t = "str" -> (IF TextOf(ret) = <<>> THEN Raise("IndexError")
                           ELSE Ok(JStr(<<TextOf(ret)[1]>>)))

\* ExifData.fromExiftool(self._exiftoolSubmit(args)[0]), read_sidecar line 216
read_result(ret) ==
    LET first == first_of(ret)
    IN  IF ~first.ok THEN first
        ELSE IF first.val.t # "object" THEN Raise("AttributeError")
        ELSE fromExiftool(first.val)

(***************************************************************************)
(* The exiftool process started by SidecarManager.__init__, lines 124-129  *)
(* ("exiftool -stay_open True -@ -"): it takes one argument per line,      *)
(* runs the arguments gathered when it meets -executeN, and answers with   *)
(* what the command prints followed by "{readyN}" and a newline.  It keeps *)
(* every tag as written and prints it back unchanged.                      *)
(***************************************************************************)
RECURSIVE cstr_decode(_)
\* the C escapes of a "#[CSTR]" line
cstr_decode(s) ==
    IF s = <<>> THEN <<>>
    ELSE IF Head(s) # "\\" \/ Len(s) = 1 THEN <<Head(s)>> \o cstr_decode(Tail(s))
    ELSE IF s[2] = "n" THEN <<"\n">> \o cstr_decode(from_index(s, 2))
    ELSE IF s[2] = "t" THEN <<"\t">> \o cstr_decode(from_index(s, 2))
    ELSE IF s[2] = "r" THEN <<"\r">> \o cstr_decode(from_index(s, 2))
    ELSE IF startswith(s, <<"\\", "x", "a", "0">>) THEN <<NBSP>> \o cstr_decode(from_index(s, 4))
    ELSE <<s[2]>> \o cstr_decode(from_index(s, 2))

\* the argument one line of the argument file gives
tool_arg(bytes) ==
    LET line == IF bytes # <<>> /\ bytes[Len(bytes)] = "\n"
                THEN SubSeq(bytes, 1, Len(bytes) - 1) ELSE bytes
    IN  IF startswith(line, CStrMark) THEN cstr_decode(from_index(line, Len(CStrMark)))
        ELSE line

is_execute(frame) == startswith(tool_arg(frame.bytes), OptExecute)

\* the place of the first c in text, or 0
index_of(text, c) ==
    LET at == {i \in 1..Len(text) : text[i] = c}
    IN  IF at = {} THEN 0 ELSE CHOOSE i \in at : \A j \in at : i <= j

\* -TAG=VALUE
is_assignment(arg) == startswith(arg, <<"-">>) /\ index_of(arg, "=") > 0

is_path(arg) == arg # <<>> /\ arg[1] # "-"

\* a file without tags
NoTags == [DateTimeOriginal |-> <<>>, Description |-> <<>>, TagsList |-> <<>>]

\* the values the assignments give to a tag, in order
assigned(assigns, tag) ==
    LET Gives(a) == SubSeq(a, 2, index_of(a, "=") - 1) = tag
        given == SelectSeq(assigns, Gives)
    IN  [i \in 1..Len(given) |-> from_index(given[i], index_of(given[i], "="))]

\* a tag with one value: the last value given, an empty value deletes it
set_tag(old, vals) ==
    IF vals = <<>> THEN old
    ELSE IF vals[Len(vals)] = <<>> THEN <<>>
    ELSE <<vals[Len(vals)]>>

\* a list tag: the values given replace the list
set_list(old, vals) ==
    LET Given(v) == v # <<>>
    IN  IF vals = <<>> THEN old ELSE SelectSeq(vals, Given)

\* the tags of a file after a write
tool_write(doc, assigns) ==
    [DateTimeOriginal |-> set_tag(doc.DateTimeOriginal, assigned(assigns, K_DateTimeOriginal)),
     Description |-> set_tag(doc.Description, assigned(assigns, K_Description)),
     TagsList |-> set_list(doc.TagsList, assigned(assigns, K_TagsList))]

\* one character inside a JSON string
json_escape_char(c) ==
    CASE c = "\"" -> <<"\\", "\"">>
      [] c = "\\" -> <<"\\", "\\">>
      [] c = "\n" -> <<"\\", "n">>
      [] c = "\t" -> <<"\\", "t">>
      [] c = "\r" -> <<"\\", "r">>
      [] OTHER -> <<c>>

RECURSIVE json_escape(_)
json_escape(s) ==
    IF s = <<>> THEN <<>> ELSE json_escape_char(Head(s)) \o json_escape(Tail(s))

json_string(text) == <<"\"">> \o json_escape(text) \o <<"\"">>

RECURSIVE joined(_, _)
\* sep.join(texts)
joined(texts, sep) ==
    IF texts = <<>> THEN <<>>
    ELSE IF Len(texts) = 1 THEN texts[1]
    ELSE texts[1] \o sep \o joined(Tail(texts), sep)

\* the object exiftool -j prints for a file
tool_object(path, doc) ==
    LET member(key, val) == json_string(key) \o <<":">> \o val
        strings == [i \in 1..Len(doc.TagsList) |-> json_string(doc.TagsList[i])]
    IN  <<"{">>
        \o joined(<<member(K_SourceFile, json_string(path))>>
                  \o (IF doc.DateTimeOriginal = <<>> THEN <<>>
                      ELSE <<member(K_DateTimeOriginal, json_string(doc.DateTimeOriginal[1]))>>)
                  \o (IF doc.Description = <<>> THEN <<>>
                      ELSE <<member(K_Description, json_string(doc.Description[1]))>>)
                  \o (IF doc.TagsList = <<>> THEN <<>>
                      ELSE <<member(K_TagsList, <<"[">> \o joined(strings, <<",">>) \o <<"]">>)>>),
                  <<",">>)
        \o <<"}">>

\* the lines exiftool prints for a file without -j
tool_listing(path, doc) ==
    LET line(key, val) == key \o <<":", " ">> \o val \o <<"\n">>
    IN  (IF doc.DateTimeOriginal = <<>> THEN <<>>
         ELSE line(K_DateTimeOriginal, doc.DateTimeOriginal[1]))
        \o (IF doc.Description = <<>> THEN <<>> ELSE line(K_Description, doc.Description[1]))
        \o (IF doc.TagsList = <<>> THEN <<>>
            ELSE line(K_TagsList, joined(doc.TagsList, <<",", " ">>)))

\* "1 image files updated": printed on standard output unless -j is given
\* (with -j it goes to standard error, which the program discards)
UpdatedNote == <<"1", " ", "u", "p", "d", "a", "t", "e", "d", "\n">>

\* one command: the files after it and what it prints
tool_run(files, args) ==
    LET assigns == SelectSeq(args, is_assignment)
        paths == SelectSeq(args, is_path)
        json == contains(args, OptJson)
        Exists(p) == p \in DOMAIN files
        found == SelectSeq(paths, Exists)
        named == {paths[i] : i \in 1..Len(paths)}
        docs == [i \in 1..Len(found) |-> tool_object(found[i], files[found[i]])]
        lists == [i \in 1..Len(found) |-> tool_listing(found[i], files[found[i]])]
    IN  IF assigns # <<>>
        THEN [files |-> [p \in DOMAIN files \cup named |->
                            IF p \in named
                            THEN tool_write(IF p \in DOMAIN files THEN files[p] ELSE NoTags,
                                            assigns)
                            ELSE files[p]],
              out |-> IF json \/ paths = <<>> THEN <<>> ELSE UpdatedNote]
        ELSE [files |-> files,
              out |-> IF found = <<>> THEN <<>>
                      ELSE IF json THEN <<"[">> \o joined(docs, <<",", "\n">>) \o <<"]", "\n">>
                      ELSE joined(lists, <<>>)]

\* whether part occurs in text
occurs_in(text, part) ==
    \E i \in 1..(Len(text) - Len(part) + 1) : SubSeq(text, i, i + Len(part) - 1) = part

\* exiftool runs the command its input holds up to the first -executeN
ToolExecute ==
    /\ alive
    /\ \E i \in 1..Len(stdin_pipe) :
          /\ is_execute(stdin_pipe[i])
          /\ \A j \in 1..(i - 1) : ~is_execute(stdin_pipe[j])
          /\ LET args == [j \in 1..(i - 1) |-> tool_arg(stdin_pipe[j].bytes)]
                 num == from_index(tool_arg(stdin_pipe[i].bytes), Len(OptExecute))
                 sentinel == <<"{", "r", "e", "a", "d", "y">> \o num \o <<"}">>
                 run == tool_run(xmp, args)
                 by == stdin_pipe[i].by
             IN  /\ xmp' = run.files
                 /\ stdout_pipe' = stdout_pipe \o run.out \o sentinel \o <<"\n">>
                 /\ stdin_pipe' = SubSeq(stdin_pipe, i + 1, Len(stdin_pipe))
                 /\ obs' = IF obs[by].no = stdin_pipe[i].no
                           THEN [obs EXCEPT ![by].reply = <<run.out>>]
                           ELSE obs
                 /\ collided' = (collided \/ occurs_in(run.out, sentinel))
    /\ UNCHANGED <<stdin_buf, alive, th, budget, turn, switches, calls, overlapped>>

\* exiftool exits; the threads can tell once they have read what it wrote
ToolExit ==
    /\ alive
    /\ stdout_pipe = <<>>
    /\ alive' = FALSE
    /\ UNCHANGED <<xmp, stdin_buf, stdin_pipe, stdout_pipe>>
    /\ UNCHANGED <<th, budget, turn, switches, obs, calls, overlapped, collided>>

(***************************************************************************)
(* SidecarManager, lines 113-256, called by NumCallers threads.            *)
(***************************************************************************)
CallIds == 1..MaxCallId

\* str(sidecar) of the sidecar of post k
SidecarPath(k) == <<Stems[k], ".", "x", "m", "p">>

\* the catalog entry with id k; every other one has a description, with a
\* line break and a non-ASCII character
CatalogPost(k) ==
    [id |-> k, created_at |-> IsoText(2021, 5, k),
     description |-> IF k % 2 = 1 THEN <<>> ELSE <<"b", "\n", NBSP>>,
     tags |-> <<[type |-> "general", tags |-> <<<<"a">>>>]>>]

\* what the sidecar of post k may hold at the start: a description that
\* reads like the sentinel of call id k
StoredTags(k) ==
    { [DateTimeOriginal |-> <<>>, Description |-> <<ready_of(k)>>, TagsList |-> <<>>] }

InFlight == {"write", "flush", "read", "decode"}

\* the working thread: at most MaxSwitches times the turn passes from one
\* thread to another
Sched(c) ==
    /\ turn \in {0, c} \/ switches < MaxSwitches
    /\ turn' = c
    /\ switches' = IF turn \in {0, c} THEN switches ELSE switches + 1

\* how a call of read_sidecar or update_sidecar ended
Returned(change, exif) == [ok |-> TRUE, err |-> "", change |-> change, exif |-> exif]

Failed(e) == [ok |-> FALSE, err |-> e, change |-> "", exif |-> <<>>]

\* read_sidecar or update_sidecar returns or raises
Finish(c, t, o, result) ==
    /\ th' = [th EXCEPT ![c] = IdleThread]
    /\ obs' = [obs EXCEPT ![c] =
                 [o EXCEPT !.log = Append(@, [kind |-> t.kind, post |-> t.post,
                                              sidecar |-> t.sidecar,
                                              had_file |-> t.had_file,
                                              ncalls |-> t.ncalls,
                                              nwrites |-> t.nwrites,
                                              result |-> result])]]
    /\ UNCHANGED <<calls, overlapped>>

\* mutant: the execute directive is put before the arguments
frames_of_execute_first(args, call_id) == <<OptExecute \o Str(call_id), OptJson>> \o args

\* args + ["-j", f"-execute{call_id}"], line 166
frames_of(args, call_id) == args \o <<OptJson, OptExecute \o Str(call_id)>>

\* _exiftoolSubmit up to its first write, lines 161-166
Submit(c, t, o, args, phase, id) ==
    /\ th' = [th EXCEPT ![c] =
                [t EXCEPT !.pc = "write", !.phase = phase, !.call_id = id,
                          !.frames = frames_of(args, id),
                          !.response = <<>>, !.ncalls = @ + 1,
                          !.nwrites = IF phase = "write" THEN @ + 1 ELSE @]]
    /\ obs' = [obs EXCEPT ![c] = [NoCall EXCEPT !.no = calls + 1, !.done = o.done,
                                                !.log = o.log]]
    /\ calls' = calls + 1
    /\ overlapped' = (overlapped \/ \E d \in Callers \ {c} : th[d].pc \in InFlight)

\* update_sidecar from line 227 on, with the record read_sidecar returned
Compare(c, t, o, current_exif, id) ==
    LET new_exif == fromPost(CatalogPost(t.post))
        desired == with_managed_tag(new_exif.val)
    IN  IF ~new_exif.ok THEN Finish(c, t, o, Failed(new_exif.err))
        ELSE IF exif_eq(current_exif, desired)
        THEN Finish(c, t, o, Returned("UNCHANGED", <<>>))
        ELSE Submit(c, t, o, write_args(desired, t.sidecar), "write", id)

\* a thread calls read_sidecar (lines 211-214) or update_sidecar (line 226)
\* for its post
Begin ==
    \E c \in Callers, kind \in {"read_sidecar", "update_sidecar"}, id \in CallIds :
       LET sidecar == SidecarPath(c)
           t == [th[c] EXCEPT !.kind = kind, !.post = c, !.sidecar = sidecar,
                              !.had_file = sidecar \in DOMAIN xmp]
       IN  /\ th[c].pc = "idle"
           /\ budget[c] > 0
           /\ Sched(c)
           /\ budget' = [budget EXCEPT ![c] = @ - 1]
           /\ IF t.had_file THEN Submit(c, t, obs[c], <<sidecar>>, "read", id)
              ELSE IF kind = "read_sidecar"
              THEN Finish(c, t, obs[c], Returned("", <<ExifData>>))
              ELSE Compare(c, t, obs[c], ExifData, id)
           /\ UNCHANGED <<toolVars, collided>>

\* stdin.write(arg_enc), line 176
WriteFrame ==
    \E c \in Callers :
       LET t == th[c]
       IN  /\ t.pc = "write"
           /\ Sched(c)
           /\ stdin_buf' = Append(stdin_buf, [bytes |-> arg_enc(Head(t.frames)),
                                              by |-> c, no |-> obs[c].no])
           /\ th' = [th EXCEPT ![c] =
                       [t EXCEPT !.frames = Tail(@),
                                 !.pc = IF Len(t.frames) = 1 THEN "flush" ELSE "write"]]
           /\ UNCHANGED <<xmp, stdin_pipe, stdout_pipe, alive>>
           /\ UNCHANGED <<budget, obs, calls, overlapped, collided>>

\* stdin.flush(), line 177: BrokenPipeError once exiftool has exited
Flush ==
    \E c \in Callers :
       LET t == th[c]
       IN  /\ t.pc = "flush"
           /\ Sched(c)
           /\ IF alive
              THEN /\ stdin_pipe' = stdin_pipe \o stdin_buf
                   /\ stdin_buf' = <<>>
                   /\ th' = [th EXCEPT ![c].pc = "read"]
                   /\ UNCHANGED <<obs, calls, overlapped>>
              ELSE /\ Finish(c, t, obs[c], Failed("BrokenPipeError"))
                   /\ UNCHANGED <<stdin_pipe, stdin_buf>>
           /\ UNCHANGED <<xmp, stdout_pipe, alive, budget, collided>>

\* mutant: the loop ends on the sentinel of any call id
sentinel_seen_any_id(response, ready) ==
    \E id \in CallIds : tail_of(response, Len(ready_of(id))) = ready_of(id)

\* the comparison that ends the read loop, line 190
sentinel_seen(response, ready) == tail_of(response, Len(ready)) = ready

\* one turn of the loop, lines 188-191: stdout.read(1) gives the next byte,
\* waits for one while exiftool runs, and gives b"" at end-of-file
ReadByte ==
    \E c \in Callers :
       LET t == th[c]
           ready == ready_of(t.call_id)
           eof == stdout_pipe = <<>>
           response == IF eof THEN t.response ELSE Append(t.response, Head(stdout_pipe))
       IN  /\ t.pc = "read"
           /\ ~eof \/ ~alive
           /\ Sched(c)
           /\ stdout_pipe' = IF eof THEN stdout_pipe ELSE Tail(stdout_pipe)
           /\ th' = [th EXCEPT ![c] =
                       [t EXCEPT !.response = response,
                                 !.pc = IF sentinel_seen(response, ready) THEN "decode"
                                        ELSE "read"]]
           /\ obs' = [obs EXCEPT ![c].got = IF eof THEN @ ELSE Append(@, Head(stdout_pipe)),
                                 ![c].sawEof = @ \/ eof]
           /\ UNCHANGED <<xmp, stdin_buf, stdin_pipe, alive>>
           /\ UNCHANGED <<budget, calls, overlapped, collided>>

\* mutant: the sentinel is not cut off
decoded_of_whole(response, ready) == strip(response)

\* response[:-len(ready)].decode("utf-8").strip(), line 194
decoded_of(response, ready) == strip(before_tail(response, Len(ready)))

\* what _exiftoolSubmit returns, lines 198-201
submit_result(decoded) == IF decoded # <<>> THEN json_loads(decoded) ELSE Ok(JNone)

\* _exiftoolSubmit from line 194 on, and its caller up to the next call:
\* read_sidecar line 216, update_sidecar lines 227-256
Decode ==
    \E c \in Callers, id \in CallIds :
       LET t == th[c]
           decoded == decoded_of(t.response, ready_of(t.call_id))
           ret == submit_result(decoded)
           o == [obs[c] EXCEPT !.done = Append(@, [id |-> t.call_id, got |-> obs[c].got,
                                                   reply |-> obs[c].reply,
                                                   decoded |-> decoded, ret |-> ret])]
           exif == read_result(ret.val)
       IN  /\ t.pc = "decode"
           /\ Sched(c)
           /\ IF ~ret.ok THEN Finish(c, t, o, Failed(ret.err))
              ELSE IF t.phase = "write" THEN Finish(c, t, o, Returned("UPDATED", <<>>))
              ELSE IF ~exif.ok THEN Finish(c, t, o, Failed(exif.err))
              ELSE IF t.kind = "read_sidecar"
              THEN Finish(c, t, o, Returned("", <<exif.val>>))
              ELSE Compare(c, t, o, exif.val, id)
           /\ UNCHANGED <<toolVars, budget, collided>>

\* SidecarManager() on a directory of sidecars: the first thread makes all
\* the calls, or every other thread makes one as well
InitSM ==
    /\ \E present \in SUBSET Callers :
          xmp \in [{SidecarPath(k) : k \in present} -> UNION {StoredTags(k) : k \in present}]
    /\ \A p \in DOMAIN xmp : \E k \in Callers : p = SidecarPath(k) /\ xmp[p] \in StoredTags(k)
    /\ stdin_buf = <<>>
    /\ stdin_pipe = <<>>
    /\ stdout_pipe = <<>>
    /\ alive = TRUE
    /\ th = [c \in Callers |-> IdleThread]
    /\ \E k \in {0, 1} : budget = [c \in Callers |-> IF c = 1 THEN MaxOps - k ELSE k]
    /\ turn = 0
    /\ switches = 0
    /\ obs = [c \in Callers |-> NoCall]
    /\ calls = 0
    /\ overlapped = FALSE
    /\ collided = FALSE
    /\ dirs = {}
    /\ fs = <<>>
    /\ marker = Missing
    /\ InitProc
    /\ InitHist

NextSM ==
    \/ Begin /\ UNCHANGED <<diskVars, procVars, histVars>>
    \/ WriteFrame /\ UNCHANGED <<diskVars, procVars, histVars>>
    \/ Flush /\ UNCHANGED <<diskVars, procVars, histVars>>
    \/ ReadByte /\ UNCHANGED <<diskVars, procVars, histVars>>
    \/ Decode /\ UNCHANGED <<diskVars, procVars, histVars>>
    \/ ToolExecute /\ UNCHANGED <<diskVars, procVars, histVars>>
    \/ ToolExit /\ UNCHANGED <<diskVars, procVars, histVars>>

SpecSM == InitSM /\ [][NextSM]_vars

(***************************************************************************)
(* SidecarManager.__del__, lines 131-145.  Its steps are kept in pc and    *)
(* the exception that leaves it in err (the repository is not part of      *)
(* this specification).                                                    *)
(***************************************************************************)
\* "-stay_open\nFalse\n", line 137
StayOpenFalse ==
    <<"-", "s", "t", "a", "y", "_", "o", "p", "e", "n", "\n", "F", "a", "l", "s", "e", "\n">>

\* the classes an exception is an instance of: subprocess.TimeoutExpired
\* derives from SubprocessError, the builtin TimeoutError from OSError
bases(exc) ==
    CASE exc = "TimeoutExpired" -> {"TimeoutExpired", "SubprocessError", "Exception"}
      [] exc = "TimeoutError" -> {"TimeoutError", "OSError", "Exception"}
      [] exc = "BrokenPipeError" -> {"BrokenPipeError", "ConnectionError", "OSError",
                                     "Exception"}
      [] OTHER -> {exc, "Exception"}

\* whether "except handler:" catches exc
except_matches(handler, exc) == handler \in bases(exc)

\* __del__, lines 135-145; it runs when no thread is inside a method of
\* the object.  Popen.wait(30) returns once the process has exited and
\* raises subprocess.TimeoutExpired when it has not exited in time
Del ==
    /\ \A c \in Callers : th[c].pc = "idle"
    /\ pc \in {"closed", "del_flush", "del_wait"}
    /\ CASE pc = "closed" ->
              /\ stdin_buf' = Append(stdin_buf, [bytes |-> StayOpenFalse, by |-> 0, no |-> 0])
              /\ pc' = "del_flush"
              /\ UNCHANGED <<stdin_pipe, alive, err>>
         [] pc = "del_flush" ->
              IF alive
              THEN /\ stdin_pipe' = stdin_pipe \o stdin_buf
                   /\ stdin_buf' = <<>>
                   /\ pc' = "del_wait"
                   /\ UNCHANGED <<alive, err>>
              ELSE /\ pc' = "deleted"
                   /\ err' = "BrokenPipeError"
                   /\ UNCHANGED <<stdin_buf, stdin_pipe, alive>>
         [] pc = "del_wait" ->
              IF ~alive
              THEN /\ pc' = "deleted"
                   /\ UNCHANGED <<stdin_buf, stdin_pipe, alive, err>>
              ELSE IF except_matches("TimeoutError", "TimeoutExpired")
              THEN /\ alive' = FALSE
                   /\ pc' = "deleted"
                   /\ UNCHANGED <<stdin_buf, stdin_pipe, err>>
              ELSE /\ pc' = "deleted"
                   /\ err' = "TimeoutExpired"
                   /\ UNCHANGED <<stdin_buf, stdin_pipe, alive>>
    /\ UNCHANGED <<xmp, stdout_pipe, th, budget, turn, switches, obs, calls, overlapped,
                    collided>>
    /\ UNCHANGED <<metadata, pending, todo, cur>>

\* exiftool reads -stay_open False, after the commands before it, and exits
ToolStayOpenFalse ==
    /\ alive
    /\ stdin_pipe # <<>>
    /\ Head(stdin_pipe).bytes = StayOpenFalse
    /\ alive' = FALSE
    /\ stdin_pipe' = Tail(stdin_pipe)
    /\ UNCHANGED <<xmp, stdin_buf, stdout_pipe>>
    /\ UNCHANGED <<th, budget, turn, switches, obs, calls, overlapped, collided>>
    /\ UNCHANGED procVars

\* the object is in use until __del__ starts
NextDel ==
    \/ pc = "closed" /\ Begin /\ UNCHANGED <<diskVars, procVars, histVars>>
    \/ WriteFrame /\ UNCHANGED <<diskVars, procVars, histVars>>
    \/ Flush /\ UNCHANGED <<diskVars, procVars, histVars>>
    \/ ReadByte /\ UNCHANGED <<diskVars, procVars, histVars>>
    \/ Decode /\ UNCHANGED <<diskVars, procVars, histVars>>
    \/ ToolExecute /\ UNCHANGED <<diskVars, procVars, histVars>>
    \/ ToolExit /\ UNCHANGED <<diskVars, procVars, histVars>>
    \/ ToolStayOpenFalse /\ UNCHANGED <<diskVars, histVars>>
    \/ Del /\ UNCHANGED <<diskVars, histVars>>

SpecDel == InitSM /\ [][NextDel]_vars

(***************************************************************************)
(* ExifData on its own: fromPost with the meta-tag of update_sidecar,      *)
(* asExiftoolArgs followed by fromExiftool, and fromExiftool, each applied *)
(* to one input.  The input and the result are kept in cur, the step in    *)
(* pc.                                                                     *)
(***************************************************************************)
\* the tags of one category of an entry
TagGroups ==
    { <<>>, << <<"a">> >>, <<ManagedTag>>, << <<"a">>, ManagedTag>>,
      <<ManagedTag, <<"a">> >>, << <<"a">>, <<"b">> >> }

\* the tags of groups g and h are all different
Disjoint(g, h) == \A i \in 1..Len(g), j \in 1..Len(h) : g[i] # h[j]

\* post.tags: one or two categories; an entry names a tag once
EntryTags ==
    { <<[type |-> "general", tags |-> g]>> : g \in TagGroups }
    \cup { <<[type |-> "general", tags |-> gh[1]], [type |-> "meta", tags |-> gh[2]]>> :
             gh \in {x \in TagGroups \X TagGroups : Disjoint(x[1], x[2])} }

\* catalog entries
ExifEntries ==
    { [id |-> 1, created_at |-> c, description |-> d, tags |-> t] :
         c \in {IsoText(2021, 5, 1), <<"n", "o", "w">>},
         d \in {<<>>, <<"b">>},
         t \in EntryTags }

\* capture times: with an offset, and one without
AwareTimes ==
    { [year |-> 2021, month |-> 5, day |-> 1, hour |-> 0, minute |-> 0, second |-> 0,
       microsecond |-> 0, tzinfo |-> [offset |-> 0]],
      [year |-> 2021, month |-> 12, day |-> 31, hour |-> 23, minute |-> 59, second |-> 58,
       microsecond |-> 120, tzinfo |-> [offset |-> -270]] }

NaiveTime ==
    [year |-> 2021, month |-> 5, day |-> 1, hour |-> 1, minute |-> 2, second |-> 3,
     microsecond |-> 0, tzinfo |-> None]

\* ExifData records: every field unset or set, the texts and lists also
\* empty
ExifRecords ==
    { [DateTimeOriginal |-> dto, Description |-> d, TagsList |-> t] :
         dto \in {<<>>, <<NaiveTime>>} \cup {<<a>> : a \in AwareTimes},
         d \in {<<>>, << <<>> >>, << <<"b">> >>},
         t \in {<<>>, << <<>> >>, << <<JStr(<<"a">>)>> >>,
                << <<JStr(<<"a">>), JStr(ManagedTag)>> >>} }

\* the members a document of exiftool -j may have besides SourceFile
DocMembers ==
    { [k |-> K_DateTimeOriginal, val |-> JStr(ExifText(2020, 1, 2))],
      [k |-> K_DateTimeOriginal, val |-> [t |-> "int", v |-> <<Str(2020)>>]],
      [k |-> K_Description, val |-> JStr(<<"b">>)],
      [k |-> K_TagsList, val |-> JArr(<<JStr(<<"a">>), JStr(<<"b">>)>>)],
      [k |-> K_TagsList, val |-> JStr(<<"a">>)] }

\* the documents: SourceFile and at most one member of each other name
ExifDocuments ==
    { JObj(<<[k |-> K_SourceFile, val |-> JStr(SidecarPath(1))]>> \o ms) :
         ms \in { m \in UNION {[1..n -> DocMembers] : n \in 0..3} :
                     \A i, j \in 1..Len(m) : i < j =>
                        \/ m[i].k = K_DateTimeOriginal /\ m[j].k # K_DateTimeOriginal
                        \/ m[i].k = K_Description /\ m[j].k = K_TagsList } }

\* the document exiftool -j prints for a sidecar that holds what the
\* arguments assign
tool_document(args) ==
    json_loads(tool_object(SidecarPath(1), tool_write(NoTags, SelectSeq(args, is_assignment))))

\* asExiftoolArgs, the document of the tool, fromExiftool
reparsed(exif) ==
    LET doc == tool_document(asExiftoolArgs(exif))
    IN  IF ~doc.ok THEN doc ELSE fromExiftool(doc.val)

ExifInput(kind, value) == [kind |-> kind, in |-> value, out |-> <<>>]

InitExif ==
    /\ dirs = {}
    /\ fs = <<>>
    /\ marker = Missing
    /\ InitHist
    /\ NoSidecarManager
    /\ pc = "exif_in"
    /\ metadata = None
    /\ pending = <<>>
    /\ todo = {}
    /\ err = ""
    /\ cur \in {ExifInput("entry", e) : e \in ExifEntries}
              \cup {ExifInput("record", r) : r \in ExifRecords}
              \cup {ExifInput("document", d) : d \in ExifDocuments}

\* the result of a step is kept
ExifResult(result) ==
    /\ pc = "exif_in"
    /\ pc' = "exif_out"
    /\ cur' = [cur EXCEPT !.out = <<result>>]
    /\ UNCHANGED <<metadata, pending, todo, err>>
    /\ UNCHANGED <<diskVars, histVars, smVars>>

\* update_sidecar, lines 227-234: new_exif
DesiredExif ==
    /\ cur.kind = "entry"
    /\ LET new_exif == fromPost(cur.in)
       IN  ExifResult(IF new_exif.ok THEN Ok(with_managed_tag(new_exif.val)) ELSE new_exif)

\* asExiftoolArgs, lines 93-110, then fromExiftool on what exiftool
\* reports
RenderAndReparse ==
    /\ cur.kind = "record"
    /\ ExifResult(reparsed(cur.in))

\* fromExiftool, lines 63-91
ParseDocument ==
    /\ cur.kind = "document"
    /\ ExifResult(fromExiftool(cur.in))

NextExif ==
    \/ DesiredExif
    \/ RenderAndReparse
    \/ ParseDocument

SpecExif == InitExif /\ [][NextExif]_vars

(***************************************************************************)
(* api/client.py: E621ApiClient.favorites against the site's /posts.json.  *)
(* The archive is not open; the call's position is kept in pc, its locals  *)
(* and the site's data in cur, an exception leaving it in err.             *)
(***************************************************************************)
PostIds == 1..MaxPostId

\* the user of the constructor, and another one
SelfUser == "self"
OtherUser == "other"

\* the posts in ids, highest id first (order:id_desc)
RECURSIVE id_desc(_)
id_desc(ids) ==
    IF ids = {} THEN <<>>
    ELSE LET top == CHOOSE i \in ids : \A j \in ids : j <= i
         IN  <<[id |-> top]>> \o id_desc(ids \ {top})

\* the first n elements of a list
first_n(list, n) == IF Len(list) <= n THEN list ELSE SubSeq(list, 1, n)

\* the site's answer to GET /posts.json?tags=fav:<user> order:id_desc
\* with limit and, where given, page=b<id>: the favourites of the user
\* with an id below <id>, highest first, at most limit of them
posts_json(favs, user, page, limit) ==
    first_n(id_desc({i \in favs[user] : page = <<>> \/ i < page[1]}), limit)

\* params["page"], lines 112-113: unset on the initial fetch, else the id
\* of the last post received so far
page_param(posts) == IF posts # <<>> THEN <<posts[Len(posts)].id>> ELSE <<>>

\* the unconditional break that ends the loop body, lines 135-136
dev_break == TRUE

InitFav ==
    /\ dirs = {}
    /\ fs = <<>>
    /\ marker = Missing
    /\ InitHist
    /\ NoSidecarManager
    /\ pc = "fav_in"
    /\ metadata = None
    /\ pending = <<>>
    /\ todo = {}
    /\ err = ""
    /\ \E favs \in [{SelfUser, OtherUser} -> SUBSET PostIds],
          user \in {<<>>, <<OtherUser>>} :
          cur = [favs |-> favs, user |-> user, posts |-> <<>>, batch |-> <<>>,
                 pages |-> <<>>, out |-> <<>>]

FavStep(next, new) ==
    /\ pc' = next
    /\ cur' = new
    /\ UNCHANGED <<metadata, pending, todo>>
    /\ UNCHANGED <<diskVars, histVars, smVars>>

\* favorites, lines 96-98
FavEnter ==
    /\ pc = "fav_in"
    /\ FavStep("fav_loop",
               [cur EXCEPT !.posts = <<>>,
                           !.user = IF cur.user = <<>> THEN <<SelfUser>> ELSE cur.user])
    /\ UNCHANGED err

\* favorites, lines 104-126: one request; the request may fail
FavRequest ==
    /\ pc = "fav_loop"
    /\ LET page == page_param(cur.posts)
       IN  \/ /\ FavStep("fav_batch",
                         [cur EXCEPT !.batch = posts_json(cur.favs, cur.user[1], page, PageLimit),
                                     !.pages = Append(cur.pages, page)])
              /\ UNCHANGED err
           \/ /\ FavStep("fav_out", [cur EXCEPT !.pages = Append(cur.pages, page)])
              /\ err' = "ConnectionError"

\* favorites, lines 128-140: the batch is added or the loop is left, then
\* the loop is left anyway; the posts are returned
FavBatch ==
    /\ pc = "fav_batch"
    /\ UNCHANGED err
    /\ IF cur.batch # <<>>
       THEN LET posts == cur.posts \o cur.batch
            IN  IF dev_break
                THEN FavStep("fav_out", [cur EXCEPT !.posts = posts, !.out = <<posts>>])
                ELSE FavStep("fav_loop", [cur EXCEPT !.posts = posts])
       ELSE FavStep("fav_out", [cur EXCEPT !.out = <<cur.posts>>])

NextFav ==
    \/ FavEnter
    \/ FavRequest
    \/ FavBatch

SpecFav == InitFav /\ [][NextFav]_vars

(***************************************************************************)
(* Properties of the repository.                                           *)
(***************************************************************************)
\* the failures the environment or the archive's data can cause: the tool
\* failing, the file system failing, the process being killed, a sidecar
\* without a usable capture time
InputFaults == {"RuntimeError", "OSError", "Killed", "KeyError", "TypeError", "ValueError"}

\* the latest _migration_0 run has ended
Ended == pc \notin M0Pcs /\ last.outcome # "none"

\* the top-level assets of files that have their sidecar beside them
PairsOf(files) ==
    {n \in AssetNames : {File(Root, n), File(Root, with_xmp(n))} \subseteq DOMAIN files}

\* asset a lies in some directory of files with its sidecar beside it
Together(files, a) ==
    \E f \in DOMAIN files : f.name = a /\ File(f.dir, with_xmp(a)) \in DOMAIN files

\* root/YYYY/MM/DD for the capture date a sidecar reports
CaptureDir(doc) ==
    LET d == ParseAt(Slice(TextOf(doc.DateTimeOriginal), 10), 1, FmtColonDate, 1, EmptyFields).val
    IN  <<Digits(d.year, 4), Digits(d.month, 2), Digits(d.day, 2)>>

\* the files of a set of top-level names
RootFiles(names) == {File(Root, n) : n \in names}

\* no file ever leaves the root: every run of _migration_0 leaves the files
\* where they were
NoMove == fs = startFs /\ moves = 0

\* C1 (as claimed): whenever a run of the v0->v1 migration has been
\* interrupted or has raised, at whatever step, library.json still holds
\* what it held when that run started.
C1_MarkerKeptOnInterrupt ==
    (Ended /\ last.outcome = "aborted") => last.marker = startMarker

\* C1, the part that holds: the marker is written only after every entry of
\* the root has been visited, and a run that ends before _write_metadata has
\* opened library.json leaves the marker as it was.
MarkerKeptBeforeWrite ==
    /\ (pc \in {"wm_open", "wm_dump"}) => (todo = {} /\ cur = None)
    /\ (pc \in M0Pcs \ {"wm_dump"}) => marker = startMarker
    /\ (Ended /\ last.outcome = "aborted" /\ last.at # "wm_dump")
          => (last.marker = startMarker /\ marker = startMarker)

C3_SecondRunMovesNothing ==
    (prevRun.outcome = "done" /\ prevRun.fs = startFs /\ prevRun.marker = startMarker)
       => /\ moves = 0
          /\ (Ended /\ last.outcome = "done")
                => (last.fs = prevRun.fs /\ last.marker = prevRun.marker)

\* C3 witness: a second run has completed after a completed run, over an
\* archive that holds files
C3_Witness ==
    /\ Ended /\ last.outcome = "done"
    /\ prevRun.outcome = "done" /\ prevRun.fs = startFs /\ prevRun.marker = startMarker
    /\ startFs # <<>>

\* C4 (as claimed): a run of the v0->v1 migration that meets no failure of
\* the tool, the file system or the sidecars' data completes; every asset
\* that had its sidecar beside it in the root then lies, with its sidecar
\* and under the same names, in root/YYYY/MM/DD of the sidecar's capture
\* date; every other file is where it was; and the marker reads 1.
C4_MigrationSortsPairs ==
    (Ended /\ last.err \notin InputFaults)
       => /\ last.outcome = "done"
          /\ last.marker = Holds(1)
          /\ \A a \in PairsOf(startFs) :
                LET dir == CaptureDir(startFs[File(Root, with_xmp(a))].doc)
                IN  {File(dir, a), File(dir, with_xmp(a))} \subseteq DOMAIN last.fs
          /\ \A f \in DOMAIN startFs \ RootFiles(PairsOf(startFs)
                                                  \cup {with_xmp(a) : a \in PairsOf(startFs)}) :
                f \in DOMAIN last.fs

\* C5: update_post executes only on a constructed instance whose archive is
\* at the latest version or beyond, with no migration pending; no step of
\* __init__ or of a migration is taken by an instance that has executed an
\* update_post; an instance whose migration failed does not exist to serve
\* one.
C5_MigrationsBeforeUpdates ==
    /\ [](pc \in CtorPcs \cup {"dispatch"} \cup M0Pcs => served = 0)
    /\ [][served' > served =>
             /\ pc = "ready"
             /\ pending = <<>>
             /\ marker.file = "json"
             /\ marker.version >= latest_version]_vars

\* C5 witness: an instance that migrated the archive has executed update_post
C5_Witness == served > 0 /\ migrated /\ last.outcome = "done"

\* C6: the version library.json holds is never below a version it held
\* before, and a migration never writes a version above the latest.
C6_MarkerMonotone ==
    /\ [](marker.file = "json" => \A v \in held : v <= marker.version)
    /\ [][(pc \in M0Pcs /\ marker' # marker /\ marker'.file = "json")
             => marker'.version <= latest_version]_vars

\* C6 witness: the marker has advanced from 0 to the latest version
C6_Witness == marker = Holds(latest_version) /\ 0 \in held /\ last.outcome = "done"

\* the failures the data of a post, the network or the tool can cause in
\* update_post
UpdateFaults == {"ValueError", "ConnectionError", "ChunkedEncodingError", "RuntimeError"}

\* update_post has returned or raised on this instance
Updated == pc = "ready" /\ served > 0

FinalPaths == {f \in DOMAIN fs : f.name \in AssetNames}

\* C12: no partially written file is ever at an asset's final path: in
\* every state, those after a failed or an interrupted download included,
\* each final path is absent or holds complete content; what a download has
\* received so far lies at the temporary path only; and update_post starts
\* a download only when no file is at the final path.
C12_NoPartialFileAtFinalPath ==
    /\ [](\A f \in FinalPaths : fs[f].complete)
    /\ [][(pc = "up_fetch" /\ pc' = "up_open") => ~is_file(cur.dir, cur.dest)]_vars
    /\ [][(pc \in {"up_open", "up_chunk"} /\ fs' # fs) =>
             \E f \in DOMAIN fs' :
                /\ f = File(cur.dir, with_part(cur.dest))
                /\ \A g \in DOMAIN fs \ {f} : g \in DOMAIN fs' /\ fs'[g] = fs[g]]_vars

\* C12 witness: a download that came in more than one chunk has been moved
\* to its final path, while the part of an earlier, interrupted download
\* still lies at a temporary path
C12_Witness ==
    /\ \E f \in FinalPaths : fs[f].complete /\ fs[f].chunks = MaxChunks
    /\ \E g \in DOMAIN fs : ~fs[g].complete

\* the sidecar beside top-level asset a reports no capture time
NoCaptureTime(files, a) == ~HasKey(files[File(Root, with_xmp(a))].doc, "DateTimeOriginal")

\* C14: the v0->v1 migration goes on to move a pair only when its sidecar
\* reports a capture time; at a pair whose sidecar reports none it raises
\* (KeyError), and that step moves nothing, leaves that pair and every pair
\* not yet visited in the root, and leaves the marker as it was when the
\* run started; the run is over then, with the marker not advanced.
C14_NoCaptureTimeFailsMigration ==
    /\ [][(pc = "m0_loop" /\ pc' = "m0_mkdir") => ~NoCaptureTime(fs, cur'.asset)]_vars
    /\ [][(pc = "m0_loop" /\ err' = "KeyError" /\ pc' # pc) =>
             /\ pc' = "closed"
             /\ fs' = fs /\ dirs' = dirs
             /\ marker' = marker /\ marker = startMarker
             /\ \E e \in todo : entry_kind(e.name) = "pair" /\ NoCaptureTime(fs', e.name)
             /\ \A e \in todo : entry_kind(e.name) = "pair" =>
                   {File(Root, e.name), File(Root, with_xmp(e.name))} \subseteq DOMAIN fs'
             /\ last' = [outcome |-> "aborted", at |-> "m0_loop", err |-> "KeyError",
                         fs |-> fs, marker |-> startMarker]]_vars
    /\ []((Ended /\ last.err = "KeyError") =>
             /\ last.marker = startMarker
             /\ \A a \in PairsOf(startFs) : NoCaptureTime(startFs, a) => a \in PairsOf(last.fs))

\* C14 witness: a migration over an archive of version 0 that holds two
\* pairs has ended with KeyError, the other pair not yet visited
C14_Witness ==
    /\ Ended /\ last.err = "KeyError" /\ last.outcome = "aborted"
    /\ startMarker = Holds(0)
    /\ Cardinality(PairsOf(startFs)) = MaxAssets
    /\ PairsOf(last.fs) = PairsOf(startFs)

\* the versions v, v + 1, ..., latest_version - 1, in this order
VersionsFrom(v) == [i \in 1..(latest_version - v) |-> v + i - 1]

\* C15: perform_migrations takes the versions from the one loaded from
\* library.json up to the latest less one, in increasing order; it runs
\* the transition of the version at hand and no other; and at a version
\* that has none it raises ValueError, which ends the dispatch and the
\* instance with the versions still to come dropped and with library.json
\* and the files as that step found them.
C15_DispatchInOrderUnknownFatal ==
    /\ [][(pc = "check_version" /\ pc' = "dispatch") =>
             /\ metadata.version < latest_version
             /\ pending' = VersionsFrom(metadata.version)]_vars
    /\ [][(pc = "dispatch" /\ pc' = "m0_iter") =>
             (Head(pending) = 0 /\ pending' = Tail(pending))]_vars
    /\ [][(pc = "dispatch" /\ pending # <<>> /\ Head(pending) # 0 /\ pc' # pc) =>
             /\ pc' = "closed"
             /\ err' \in {"ValueError", "Killed"}
             /\ pending' = <<>>
             /\ marker' = marker /\ fs' = fs /\ dirs' = dirs
             /\ last' = last]_vars
    /\ [][(pc = "dispatch" /\ pc' = "ready") => pending = <<>>]_vars

\* C15 witness: an archive whose library.json holds a version below 0 has
\* been opened; the dispatch has raised ValueError before any migration
\* ran, and library.json holds what it held
C15_Witness ==
    /\ pc = "closed" /\ err = "ValueError"
    /\ last = NoRun
    /\ marker = Holds(-1)
    /\ held = {-1}

\* C20: every update_post call on an entry whose creation date parses
\* computes the asset path root/YYYY/MM/DD/<id>.<ext> from the first ten
\* characters of the creation time, and the sidecar path as the asset path
\* with the suffix xmp added, and goes on with the directory made; the
\* migration moves a pair to the directory of the same form for the
\* capture date of its sidecar.
C20_PathsFromCreationDate ==
    /\ [][(pc = "ready" /\ served' = served + 1 /\ err' # "ValueError") =>
             /\ pc' = "up_fetch"
             /\ cur'.dir = <<SubSeq(cur'.post.created_at, 1, 4),
                             SubSeq(cur'.post.created_at, 6, 7),
                             SubSeq(cur'.post.created_at, 9, 10)>>
             /\ cur'.dest = <<Stems[cur'.post.id], cur'.post.ext>>
             /\ cur'.sidecar = Append(cur'.dest, "xmp")
             /\ cur'.dir \in dirs']_vars
    /\ [][(pc = "m0_loop" /\ pc' = "m0_mkdir") =>
             cur'.dest = CaptureDir(fs[File(Root, cur'.sidecar)].doc)]_vars

\* __init__ is entered
Opens == pc = "closed" /\ pc' # "closed"

\* the program takes a step from the place from, and neither raises nor is
\* killed there
Goes(from) == pc = from /\ pc' \notin {from, "closed"}

\* C24: opening on a root that does not exist creates it and nothing else;
\* until library.json holds a document the root holds no file and no
\* directory; the document written is the latest version; an opening that
\* loads the latest version goes on to serve without a migration and
\* without touching the disk.  Opening on a root that exists leaves the
\* disk alone; without a library.json it takes the version to be 0,
\* schedules the transition from 0 and enters _migration_0.
C24_OpenCreatesOrAssumesVersion0 ==
    /\ [][(Opens /\ Root \notin dirs) =>
             /\ pc' = "init_open"
             /\ dirs' = dirs \cup {Root}
             /\ fs' = fs /\ marker' = marker]_vars
    /\ [](pc \in {"init_open", "init_dump"} =>
             /\ dirs = {Root} /\ fs = <<>>
             /\ marker = IF pc = "init_open" THEN Missing ELSE Empty)
    /\ [][Goes("init_open") => (pc' = "init_dump" /\ fs' = fs /\ dirs' = dirs)]_vars
    /\ [][Goes("init_dump") =>
             /\ marker' = Holds(latest_version)
             /\ pc' = "load"
             /\ fs' = fs /\ dirs' = dirs]_vars
    /\ [][(Goes("load") /\ marker = Holds(latest_version)) =>
             /\ pc' = "exiftool_ver"
             /\ metadata' = [version |-> latest_version]]_vars
    /\ [](pc \in {"exiftool_ver", "check_version"} =>
             metadata = [version |-> IF marker = Missing THEN 0 ELSE marker.version])
    /\ [][(Goes("check_version") /\ metadata.version = latest_version) =>
             /\ pc' = "ready"
             /\ ~migrated' /\ moves' = moves /\ last' = last
             /\ UNCHANGED diskVars]_vars
    /\ [][(Opens /\ Root \in dirs) => (pc' = "load" /\ UNCHANGED diskVars)]_vars
    /\ [][(Goes("load") /\ marker = Missing) =>
             /\ pc' = "exiftool_ver"
             /\ metadata' = [version |-> 0]
             /\ UNCHANGED diskVars]_vars
    /\ [][(Goes("check_version") /\ metadata.version = 0) =>
             /\ pc' = "dispatch"
             /\ pending' = <<0>>]_vars
    /\ [][(Goes("dispatch") /\ pending = <<0>>) =>
             /\ pc' = "m0_iter"
             /\ pending' = <<>>]_vars

\* C24 witness: an archive that did not exist is open at the latest
\* version, and no _migration_0 has run
C24_Witness ==
    /\ pc = "ready"
    /\ startMarker = Missing /\ fs0 = <<>>
    /\ marker = Holds(latest_version)
    /\ fs = <<>>
    /\ ~migrated
    /\ last = NoRun

(***************************************************************************)
(* Properties of the session channel and of update_sidecar.                *)
(***************************************************************************)
\* the length of the shortest prefix of bytes that ends with ready, or 0
FirstMatchEnd(bytes, ready) ==
    LET ends == {k \in Len(ready)..Len(bytes) :
                    SubSeq(bytes, k - Len(ready) + 1, k) = ready}
    IN  IF ends = {} THEN 0 ELSE CHOOSE k \in ends : \A j \in ends : k <= j

\* the bytes a finished call received before its sentinel
BytesBefore(d) == SubSeq(d.got, 1, Len(d.got) - Len(ready_of(d.id)))

\* the document a payload stands for
DocumentOf(payload) ==
    IF strip(payload) = <<>> THEN Ok(JNone) ELSE json_loads(strip(payload))

\* the finished _exiftoolSubmit calls, as [c, i]
FinishedCalls == {x \in Callers \X (1..(MaxOps * 2)) : x[2] <= Len(obs[x[1]].done)}

CallOf(x) == obs[x[1]].done[x[2]]

\* C7, as the program has it: a call with id N reads on while no prefix of
\* what it has received ends with {readyN}, whatever other sentinel text
\* the stream holds; it stops at the first prefix that does; and the
\* document it returns is read from the bytes before that match with the
\* whitespace around them removed (no document when nothing is left).
C7_StopsAtOwnSentinelAndTrims ==
    /\ \A c \in Callers :
          /\ th[c].pc = "read" => FirstMatchEnd(obs[c].got, ready_of(th[c].call_id)) = 0
          /\ th[c].pc = "decode" =>
                FirstMatchEnd(obs[c].got, ready_of(th[c].call_id)) = Len(obs[c].got)
    /\ \A x \in FinishedCalls :
          /\ FirstMatchEnd(CallOf(x).got, ready_of(CallOf(x).id)) = Len(CallOf(x).got)
          /\ CallOf(x).decoded = strip(BytesBefore(CallOf(x)))
          /\ CallOf(x).ret = DocumentOf(BytesBefore(CallOf(x)))

\* a call returned a document although the text of another id's sentinel
\* came before its own
C7_Witness ==
    \E x \in FinishedCalls, m \in CallIds :
       /\ m # CallOf(x).id
       /\ occurs_in(BytesBefore(CallOf(x)), ready_of(m))
       /\ CallOf(x).ret.ok
       /\ CallOf(x).ret.val.t = "array"

\* C7 as stated: the payload a call returns is exactly the bytes received
\* before the first tail match of its sentinel.
C7_PayloadIsExactlyTheBytes ==
    \A x \in FinishedCalls :
       /\ FirstMatchEnd(CallOf(x).got, ready_of(CallOf(x).id)) = Len(CallOf(x).got)
       /\ CallOf(x).decoded = BytesBefore(CallOf(x))

\* each finished call returned the document of the payload exiftool
\* printed for its own -execute
OwnPayloadReturned ==
    \A x \in FinishedCalls :
       /\ CallOf(x).reply # <<>>
       /\ CallOf(x).ret = DocumentOf(CallOf(x).reply[1])

\* C8, restricted to calls that do not overlap: when no two calls have been
\* in flight at once (and no payload held the sentinel of its own call),
\* every call returned only after exiftool answered it, with the document
\* of the payload printed for its own id.
C8_SerializedCallsGetOwnPayload == (~overlapped /\ ~collided) => OwnPayloadReturned

\* both threads have finished a call that read a sidecar, one after the
\* other
C8_Witness ==
    /\ ~overlapped
    /\ ~collided
    /\ \A c \in Callers :
          /\ obs[c].done # <<>>
          /\ obs[c].done[1].ret.ok
          /\ obs[c].done[1].ret.val.t = "array"

\* C8 as stated: for every interleaving of two calls each returns the
\* payload printed for its own id (payloads that hold their own call's
\* sentinel set aside).
C8_EveryInterleavingGetsOwnPayload == ~collided => OwnPayloadReturned

\* C9: once a read of an in-flight call has met end-of-file, the call has
\* ended and has raised an error to its caller.
C9_EofEndsCall ==
    \A c \in Callers :
       obs[c].sawEof =>
          /\ th[c].pc = "idle"
          /\ obs[c].log # <<>>
          /\ ~obs[c].log[Len(obs[c].log)].result.ok

\* what the program does instead: a call that has met end-of-file stays in
\* its read loop
EofKeepsReading == \A c \in Callers : obs[c].sawEof => th[c].pc = "read"

\* a thread has called update_sidecar twice for its post, the sidecar
\* missing at first, exiftool running throughout and no other thread
\* calling
TwoUpdates(c) ==
    /\ Len(obs[c].log) = 2
    /\ \A i \in 1..2 : obs[c].log[i].kind = "update_sidecar"
    /\ ~obs[c].log[1].had_file
    /\ alive
    /\ \A d \in Callers \ {c} : obs[d].log = <<>> /\ th[d].pc = "idle"

UpdatedThenUnchanged(c) ==
    /\ obs[c].log[1].result = Returned("UPDATED", <<>>)
    /\ obs[c].log[2].result = Returned("UNCHANGED", <<>>)

\* C10, as the program has it: the first call returns UPDATED and the
\* second UNCHANGED, with two external calls over both: the write of the
\* first call and the read of the second.
C10_UpdatedThenUnchangedTwoCalls ==
    \A c \in Callers :
       TwoUpdates(c) =>
          /\ UpdatedThenUnchanged(c)
          /\ obs[c].log[1].ncalls = 1 /\ obs[c].log[1].nwrites = 1
          /\ obs[c].log[2].ncalls = 1 /\ obs[c].log[2].nwrites = 0
          /\ calls = 2

C10_Witness == \E c \in Callers : TwoUpdates(c) /\ obs[c].log[2].result.ok

\* C10 as stated: UPDATED, then UNCHANGED, with exactly one external call
\* over both calls.
C10_ExactlyOneExternalCall ==
    \A c \in Callers : TwoUpdates(c) => (UpdatedThenUnchanged(c) /\ calls = 1)

\* C13: once __del__ has ended, by returning or by raising, the exiftool
\* process it was to shut down is no longer running.
C13_TeardownStopsProcess == pc = "deleted" => ~alive

\* the finished read_sidecar calls of thread c on a path that held no file
MissingReads(c) ==
    {i \in 1..Len(obs[c].log) :
        obs[c].log[i].kind = "read_sidecar" /\ ~obs[c].log[i].had_file}

\* thread c returns from read_sidecar on a path that holds no file
ReturnsMissingRead(c) ==
    /\ Len(obs'[c].log) = Len(obs[c].log) + 1
    /\ Len(obs'[c].log) \in MissingReads(c)'

\* C16: read_sidecar on a path that holds no file returns the record with
\* capture time, description and tag list all unset, raises nothing, makes
\* no _exiftoolSubmit call, and leaves the sidecars, the bytes written to
\* exiftool and the bytes it has answered as they were.
C16_MissingSidecarReadsUnset ==
    /\ [](\A c \in Callers : \A i \in MissingReads(c) :
             /\ obs[c].log[i].result.ok
             /\ obs[c].log[i].ncalls = 0
             /\ obs[c].log[i].result.exif =
                   << [DateTimeOriginal |-> <<>>, Description |-> <<>>, TagsList |-> <<>>] >>)
    /\ [][\A c \in Callers : ReturnsMissingRead(c) =>
             /\ UNCHANGED <<xmp, stdin_buf, stdin_pipe, stdout_pipe, alive>>
             /\ calls' = calls
             /\ th[c].pc = "idle" /\ th'[c].pc = "idle"]_vars

\* C16 witness: a read_sidecar on a path without a file has returned while
\* the call of another thread was in flight
C16_Witness ==
    \E c \in Callers : \E d \in Callers \ {c} :
       /\ MissingReads(c) # {}
       /\ th[d].pc \in InFlight
       /\ stdin_buf # <<>> \/ stdin_pipe # <<>> \/ stdout_pipe # <<>>

(***************************************************************************)
(* Properties of ExifData.                                                 *)
(***************************************************************************)
\* the step on an input of this kind has been taken
Applied(kind) == pc = "exif_out" /\ cur.kind = kind

\* the times x occurs in list
Occurrences(list, x) == Cardinality({i \in 1..Len(list) : list[i] = x})

ReparsedAware ==
    /\ Applied("record")
    /\ cur.in.DateTimeOriginal # <<>>
    /\ cur.in.DateTimeOriginal[1].tzinfo # None

\* what comes back for a record: a description of "" is deleted by the
\* assignment that renders it, and a tag list that is unset comes back as
\* the empty list
Reread(exif) ==
    [exif EXCEPT !.Description = IF @ = << <<>> >> THEN <<>> ELSE @,
                 !.TagsList = IF @ = <<>> THEN << <<>> >> ELSE @]

Lacks(doc, key) == \A i \in 1..Len(doc.v) : doc.v[i].k # key

\* the document has none of the three tracked fields
NoFields(doc) ==
    Lacks(doc, K_DateTimeOriginal) /\ Lacks(doc, K_Description) /\ Lacks(doc, K_TagsList)

StartsCall(c) == th[c].pc \in {"idle", "decode"} /\ th'[c].pc = "write"

\* the frames of call number no of thread c that lie in a part of
\* exiftool's input
OwnFrames(part, c, no) == {i \in 1..Len(part) : part[i].by = c /\ part[i].no = no}

\* C21: a call starts with its frames to write being its arguments in the
\* order given, then -j, then one -executeN with N its call id, no
\* argument being -j or an execute directive; each write puts the first
\* frame still to write, encoded, at the end of what has been written; the
\* call reads only when it has written every frame and flushed them all;
\* and the sentinel that ends its reading is {readyN} for the same N,
\* which stays the same throughout the call.
C21_FramesInOrderThenRead ==
    /\ [][\A c \in Callers : StartsCall(c) =>
             LET f == th'[c].frames
                 n == Len(f)
             IN  /\ n >= 3
                 /\ f[n] = OptExecute \o Str(th'[c].call_id)
                 /\ f[n - 1] = OptJson
                 /\ \A i \in 1..(n - 2) : f[i] # OptJson /\ ~startswith(f[i], OptExecute)
                 /\ f[n - 2] = th'[c].sidecar
                 /\ OwnFrames(stdin_buf', c, obs'[c].no) = {}
                 /\ OwnFrames(stdin_pipe', c, obs'[c].no) = {}]_vars
    /\ [][\A c \in Callers : (th[c].pc = "write" /\ th'[c] # th[c]) =>
             /\ stdin_buf' = Append(stdin_buf, [bytes |-> arg_enc(Head(th[c].frames)),
                                                by |-> c, no |-> obs[c].no])
             /\ th'[c].frames = Tail(th[c].frames)
             /\ th'[c].call_id = th[c].call_id
             /\ th'[c].pc = IF th'[c].frames = <<>> THEN "flush" ELSE "write"]_vars
    /\ [](\A c \in Callers : th[c].pc \in {"read", "decode"} =>
             /\ th[c].frames = <<>>
             /\ OwnFrames(stdin_buf, c, obs[c].no) = {})
    /\ [](\A c \in Callers : th[c].pc \in {"write", "flush"} =>
             (th[c].response = <<>> /\ obs[c].got = <<>>))
    /\ [][\A c \in Callers : (th[c].pc = "read" /\ th'[c] # th[c]) =>
             /\ th'[c].call_id = th[c].call_id
             /\ th'[c].pc \in {"read", "decode"}
             /\ th'[c].pc = "decode" <=>
                   tail_of(th'[c].response, Len(ready_of(th[c].call_id)))
                      = ready_of(th[c].call_id)]_vars

\* C21 witness: a call that writes a sidecar, with several arguments, has
\* read part of the answer
C21_Witness ==
    \E c \in Callers :
       /\ th[c].pc = "read"
       /\ th[c].phase = "write"
       /\ th[c].response # <<>>

(***************************************************************************)
(* Properties of E621ApiClient.favorites.                                  *)
(***************************************************************************)
\* favorites has returned
FavReturned == pc = "fav_out" /\ err = ""

\* C22: when favorites returns, the list returned holds the posts of every
\* result page, in the order received: every favourite of the user, the
\* highest id first.
C22_FavoritesReturnsEveryPage ==
    FavReturned => cur.out = <<id_desc(cur.favs[cur.user[1]])>>

(***************************************************************************)
(* Properties of a sequence of _exiftoolSubmit calls.                      *)
(***************************************************************************)
\* what a call finds in the stream from the call before it: nothing, or the
\* newline exiftool prints after a sentinel
Leftovers == {<<>>, <<"\n">>}

\* a finished call has received what was left of the call before it, then
\* the payload exiftool printed for its own -execute, then its sentinel
ReadOwnAnswer(d) ==
    /\ d.reply # <<>>
    /\ \E left \in Leftovers : d.got = left \o d.reply[1] \o ready_of(d.id)

\* C23, for payloads that do not hold the sentinel of their own call: when
\* the calls have not overlapped, every finished call has read at most the
\* newline left after the sentinel of the call before it, then its own
\* payload and sentinel, and has returned the document of its own payload;
\* the bytes left over have changed no document.
C23_LeftoverNewlineChangesNothing ==
    (~overlapped /\ ~collided) =>
       \A x \in FinishedCalls :
          /\ ReadOwnAnswer(CallOf(x))
          /\ CallOf(x).ret = DocumentOf(CallOf(x).reply[1])

\* C23 witness: a call that found the newline of the call before it in the
\* stream has returned the listing of its sidecar
C23_Witness ==
    /\ ~overlapped
    /\ ~collided
    /\ \E x \in FinishedCalls :
          /\ CallOf(x).reply # <<>>
          /\ CallOf(x).got = <<"\n">> \o CallOf(x).reply[1] \o ready_of(CallOf(x).id)
          /\ CallOf(x).ret.ok
          /\ CallOf(x).ret.val.t = "array"

\* C23 as stated: in every sequence of calls that do not overlap, the k-th
\* call returns the document of the payload printed for the k-th request.
C23_EverySerializedCallReturnsItsPayload ==
    ~overlapped =>
       \A x \in FinishedCalls :
          CallOf(x).reply # <<>> => CallOf(x).ret = DocumentOf(CallOf(x).reply[1])

====
